---- MODULE Spec2Model ----
(***************************************************************************)
(* Model of the generation-result parsing and repair pipeline of the Dev   *)
(* agent (src/src/agents/DevAgent.ts): normalizeJSON, the extraction       *)
(* strategies of parseResponse, tryFixTruncatedJSON, validateResult,       *)
(* autoFixCommonIssues and the retry loop of generateCode.                 *)
(*                                                                         *)
(* A text is a sequence of lexemes.  Every lexeme stands for one character *)
(* of the JavaScript string, except the words listed in Words, which stand *)
(* for the run of letters they spell (a key, a file name, a code fence).   *)
(* The texts of the model never hold a backslash directly in front of a    *)
(* word, so no escape sequence ever splits a word.                         *)
(***************************************************************************)
EXTENDS Integers, Sequences, FiniteSets, TLC

\* ------------------------------------------------------------- lexemes
DQ == "\""
BS == "\\"
NL == "\n"
TAB == "\t"
CR == "\r"
SP == " "
SQ == "'"
FENCE == "<fence>"

\* \s of the regular expressions, and the characters trim() removes.
IsSpace(c) == c \in {SP, NL, TAB, CR}

\* ---------------------------------------------------- string primitives
\* Positions are 1-based; 0 means "not found" where JavaScript gives -1.

\* String.prototype.indexOf(pat) from position from.
Occurs(t, pat, i) ==
  /\ i >= 1
  /\ i + Len(pat) - 1 <= Len(t)
  /\ \A k \in 1..Len(pat) : t[i + k - 1] = pat[k]

indexOfFrom(t, pat, from) ==
  IF \E i \in from..Len(t) : Occurs(t, pat, i)
  THEN CHOOSE i \in from..Len(t) :
         Occurs(t, pat, i) /\ \A m \in from..(i - 1) : ~Occurs(t, pat, m)
  ELSE 0

indexOf(t, pat) == indexOfFrom(t, pat, 1)

lastIndexOf(t, pat) ==
  IF \E i \in 1..Len(t) : Occurs(t, pat, i)
  THEN CHOOSE i \in 1..Len(t) :
         Occurs(t, pat, i) /\ \A m \in (i + 1)..Len(t) : ~Occurs(t, pat, m)
  ELSE 0

endsWith(t, pat) == Len(pat) <= Len(t) /\ Occurs(t, pat, Len(t) - Len(pat) + 1)

startsWith(t, pat) == Occurs(t, pat, 1)

\* The first position >= i that holds no white space (Len(t)+1 when none).
RECURSIVE SkipWs(_, _)
SkipWs(t, i) == IF i <= Len(t) /\ IsSpace(t[i]) THEN SkipWs(t, i + 1) ELSE i

\* The last position <= i that holds no white space (0 when none).
RECURSIVE SkipWsBack(_, _)
SkipWsBack(t, i) == IF i >= 1 /\ IsSpace(t[i]) THEN SkipWsBack(t, i - 1) ELSE i

\* String.prototype.trim().
trim(t) ==
  LET a == SkipWs(t, 1)
      b == SkipWsBack(t, Len(t))
  IN IF a > b THEN <<>> ELSE SubSeq(t, a, b)

\* The concatenation of piece(lo), ..., piece(hi), split in halves so that the
\* evaluation depth stays logarithmic.
RECURSIVE Concat(_, _, _)
Concat(piece(_), lo, hi) ==
  IF lo > hi THEN <<>>
  ELSE IF lo = hi THEN piece(lo)
  ELSE LET mid == (lo + hi) \div 2
       IN Concat(piece, lo, mid) \o Concat(piece, mid + 1, hi)

\* ------------------------------------------------------- normalizeJSON
\* /:\s*'([^']*)'/ at position m: a colon, white space, a single-quoted run.
QuoteOpen(t, m) == SkipWs(t, m + 1)

SingleQuotedAt(t, m) ==
  /\ t[m] = ":"
  /\ LET j == QuoteOpen(t, m)
     IN /\ j <= Len(t)
        /\ t[j] = SQ
        /\ \E k \in (j + 1)..Len(t) : t[k] = SQ

SingleQuotedEnd(t, m) == indexOfFrom(t, <<SQ>>, QuoteOpen(t, m) + 1)

\* replace(/:\s*'([^']*)'/g, ': "$1"') on t from position i on.
RECURSIVE replaceSingleQuotes(_, _)
replaceSingleQuotes(t, i) ==
  IF \E m \in i..Len(t) : SingleQuotedAt(t, m)
  THEN LET m == CHOOSE m \in i..Len(t) :
                  SingleQuotedAt(t, m) /\ \A p \in i..(m - 1) : ~SingleQuotedAt(t, p)
           j == QuoteOpen(t, m)
           k == SingleQuotedEnd(t, m)
       IN SubSeq(t, i, m - 1) \o <<":", SP, DQ>> \o SubSeq(t, j + 1, k - 1) \o <<DQ>>
            \o replaceSingleQuotes(t, k + 1)
  ELSE SubSeq(t, i, Len(t))

\* The chain .replace(/\\/g,'\\\\').replace(/\n/g,'\\n').replace(/\r/g,'\\r')
\* .replace(/\t/g,'\\t').replace(/"/g,'\\"') on one character.
escapeChar(c) ==
  IF c = BS THEN <<BS, BS>>
  ELSE IF c = NL THEN <<BS, "n">>
  ELSE IF c = CR THEN <<BS, "r">>
  ELSE IF c = TAB THEN <<BS, "t">>
  ELSE IF c = DQ THEN <<BS, DQ>>
  ELSE <<c>>

escapeContent(content) ==
  LET piece(i) == escapeChar(content[i]) IN Concat(piece, 1, Len(content))

\* /"content":\s*"([\s\S]*?)"/ at position m.
ContentKey == <<DQ, "content", DQ, ":">>

ContentOpen(t, m) == SkipWs(t, m + Len(ContentKey))

ContentAt(t, m) ==
  /\ Occurs(t, ContentKey, m)
  /\ LET j == ContentOpen(t, m)
     IN /\ j <= Len(t)
        /\ t[j] = DQ
        /\ \E k \in (j + 1)..Len(t) : t[k] = DQ

\* The lazy group ends at the first double quote after the opening one.
ContentEnd(t, m) == indexOfFrom(t, <<DQ>>, ContentOpen(t, m) + 1)

RECURSIVE replaceContent(_, _)
replaceContent(t, i) ==
  IF \E m \in i..Len(t) : ContentAt(t, m)
  THEN LET m == CHOOSE m \in i..Len(t) :
                  ContentAt(t, m) /\ \A p \in i..(m - 1) : ~ContentAt(t, p)
           j == ContentOpen(t, m)
           k == ContentEnd(t, m)
       IN SubSeq(t, i, m - 1) \o ContentKey \o <<SP, DQ>>
            \o escapeContent(SubSeq(t, j + 1, k - 1)) \o <<DQ>>
            \o replaceContent(t, k + 1)
  ELSE SubSeq(t, i, Len(t))

normalizeJSON(jsonText) ==
  replaceContent(replaceSingleQuotes(jsonText, 1), 1)

\* ---------------------------------------------------------- JSON.parse
\* A parsed value: a string (s: its characters), an array (es: its elements)
\* or an object (es: its members in insertion order, each a pair of a key s
\* and a one-element es).  The texts of the model hold no digits and none of
\* the literals true, false and null, which JSON.parse would also accept.
JStr(s) == [t |-> "str", s |-> s, es |-> <<>>]
JArr(es) == [t |-> "arr", s |-> <<>>, es |-> es]
JObj(ms) == [t |-> "obj", s |-> <<>>, es |-> ms]
JPair(k, v) == [t |-> "pair", s |-> k, es |-> <<v>>]

\* The outcome of a parse step: a value and the position after it, or a
\* SyntaxError.
Parsed(v, next) == [ok |-> TRUE, v |-> v, next |-> next]
SyntaxError == [ok |-> FALSE, v |-> JStr(<<>>), next |-> 0]

\* The number of consecutive backslashes that end at position j, counted no
\* further back than lo.
RECURSIVE BSRun(_, _, _)
BSRun(t, j, lo) == IF j >= lo /\ t[j] = BS THEN 1 + BSRun(t, j - 1, lo) ELSE 0

\* Position j of a string literal opened at lo - 1 is the target of an escape.
Escaped(t, j, lo) == BSRun(t, j - 1, lo) % 2 = 1

\* The characters JSON allows after a backslash, and what they denote
\* (\u is left out: the texts of the model hold no u).
EscapeTable ==
  [c \in {DQ, BS, "/", "b", "f", "n", "r", "t"} |->
     IF c = "n" THEN NL
     ELSE IF c = "r" THEN CR
     ELSE IF c = "t" THEN TAB
     ELSE IF c = "b" THEN "<bksp>"
     ELSE IF c = "f" THEN "<ff>"
     ELSE c]

ControlChars == {NL, CR, TAB, "<bksp>", "<ff>"}

\* A string literal that opens at position i (t[i] is the double quote).
ParseString(t, i) ==
  LET lo == i + 1
      closes(j) == t[j] = DQ /\ ~Escaped(t, j, lo)
      good(j) == IF Escaped(t, j, lo) THEN t[j] \in DOMAIN EscapeTable
                 ELSE t[j] \notin ControlChars
      piece(j) == IF Escaped(t, j, lo) THEN <<EscapeTable[t[j]]>>
                  ELSE IF t[j] = BS THEN <<>>
                  ELSE <<t[j]>>
      closedAt(k) == IF \A j \in lo..(k - 1) : good(j)
                     THEN Parsed(JStr(Concat(piece, lo, k - 1)), k + 1)
                     ELSE SyntaxError
  IN IF ~\E j \in lo..Len(t) : closes(j) THEN SyntaxError
     ELSE closedAt(CHOOSE j \in lo..Len(t) :
                     closes(j) /\ \A m \in lo..(j - 1) : ~closes(m))

\* obj[key] = val, as JSON.parse does for a repeated key: the member keeps
\* its place and takes the later value.
PutMember(ms, key, val) ==
  IF \E x \in 1..Len(ms) : ms[x].s = key
  THEN [x \in 1..Len(ms) |-> IF ms[x].s = key THEN JPair(key, val) ELSE ms[x]]
  ELSE Append(ms, JPair(key, val))

RECURSIVE ParseValue(_, _)
RECURSIVE ParseMembers(_, _, _)
RECURSIVE ParseElements(_, _, _)

\* The value that starts at position i (white space already skipped).
ParseValue(t, i) ==
  IF i > Len(t) THEN SyntaxError
  ELSE IF t[i] = DQ THEN ParseString(t, i)
  ELSE IF t[i] = "{" THEN
    LET j == SkipWs(t, i + 1)
    IN IF j <= Len(t) /\ t[j] = "}" THEN Parsed(JObj(<<>>), j + 1)
       ELSE ParseMembers(t, j, <<>>)
  ELSE IF t[i] = "[" THEN
    LET j == SkipWs(t, i + 1)
    IN IF j <= Len(t) /\ t[j] = "]" THEN Parsed(JArr(<<>>), j + 1)
       ELSE ParseElements(t, j, <<>>)
  ELSE SyntaxError

\* The members of an object from the key at position i on.
ParseMembers(t, i, ms) ==
  LET afterValue(ms2, e) ==
        IF e > Len(t) THEN SyntaxError
        ELSE IF t[e] = "}" THEN Parsed(JObj(ms2), e + 1)
        ELSE IF t[e] = "," THEN ParseMembers(t, SkipWs(t, e + 1), ms2)
        ELSE SyntaxError
      member(k, v) ==
        IF ~v.ok THEN SyntaxError
        ELSE afterValue(PutMember(ms, k.v.s, v.v), SkipWs(t, v.next))
      afterKey(k, c) ==
        IF c > Len(t) \/ t[c] # ":" THEN SyntaxError
        ELSE member(k, ParseValue(t, SkipWs(t, c + 1)))
      key(k) == IF ~k.ok THEN SyntaxError ELSE afterKey(k, SkipWs(t, k.next))
  IN IF i > Len(t) \/ t[i] # DQ THEN SyntaxError ELSE key(ParseString(t, i))

\* The elements of an array from the value at position i on.
ParseElements(t, i, es) ==
  LET afterValue(es2, e) ==
        IF e > Len(t) THEN SyntaxError
        ELSE IF t[e] = "]" THEN Parsed(JArr(es2), e + 1)
        ELSE IF t[e] = "," THEN ParseElements(t, SkipWs(t, e + 1), es2)
        ELSE SyntaxError
      element(v) ==
        IF ~v.ok THEN SyntaxError ELSE afterValue(Append(es, v.v), SkipWs(t, v.next))
  IN element(ParseValue(t, i))

\* JSON.parse(text): one value with nothing but white space around it.
JSONparse(text) ==
  LET whole(r) == IF r.ok /\ SkipWs(text, r.next) > Len(text) THEN r ELSE SyntaxError
  IN whole(ParseValue(text, SkipWs(text, 1)))

\* obj.key of a parsed value: the member's value, or undefined.
HasMember(v, key) == v.t = "obj" /\ \E x \in 1..Len(v.es) : v.es[x].s = key
Member(v, key) == v.es[CHOOSE x \in 1..Len(v.es) : v.es[x].s = key].es[1]

\* JavaScript truthiness of a parsed value: only the empty string is falsy.
Truthy(v) == v.t # "str" \/ v.s # <<>>

\* parsed && parsed.files
HasFiles(r) == r.ok /\ HasMember(r.v, <<"files">>) /\ Truthy(Member(r.v, <<"files">>))

\* ------------------------------------------------- tryFixTruncatedJSON
\* substring(0, end) with end a 1-based position one past the kept part.
substringTo(t, end) == SubSeq(t, 1, end - 1)

\* The steps of the repair, each on the text the step before left.
\* If it ends with an incomplete string, cut back to the last {"path".
dropIncompleteString(fixed) ==
  IF endsWith(fixed, <<DQ>>) /\ ~endsWith(fixed, <<DQ, "}">>)
  THEN substringTo(fixed, lastIndexOf(fixed, <<"{", DQ, "path", DQ>>))
  ELSE fixed

\* Cut back to the last "}," (lastCompleteFile > 0 is position > 1 here).
cutToLastCompleteFile(fixed) ==
  LET cut(lastCompleteFile) ==
        IF lastCompleteFile > 1 THEN substringTo(fixed, lastCompleteFile + 1) ELSE fixed
  IN cut(lastIndexOf(fixed, <<"}", ",">>))

closeArray(fixed) == IF ~endsWith(fixed, <<"]">>) THEN fixed \o <<"]">> ELSE fixed

closeObject(fixed) == IF ~endsWith(fixed, <<"}">>) THEN fixed \o <<"}">> ELSE fixed

tryFixTruncatedJSON(jsonText) ==
  closeObject(closeArray(cutToLastCompleteFile(dropIncompleteString(trim(jsonText)))))

\* ------------------------------------------------------- parseResponse
\* The outcome of one extraction strategy, and of parseResponse: the parsed
\* object and the strategy that produced it, or no result.  A failure of
\* parseResponse is an AgentError; originalError tells whether it wraps the
\* SyntaxError of the last JSON.parse.
Extracted(v, n) == [ok |-> TRUE, parsed |-> v, strategy |-> n, originalError |-> FALSE]
NoResult == [ok |-> FALSE, parsed |-> JStr(<<>>), strategy |-> 0, originalError |-> FALSE]
AgentErrorWrapping == [NoResult EXCEPT !.originalError = TRUE]

\* Strategy 1: JSON.parse(this.normalizeJSON(text)).
\* parsed && parsed.files of strategy n, a SyntaxError being caught.
withFiles(r, n) == IF HasFiles(r) THEN Extracted(r.v, n) ELSE NoResult

strategy1(text) == withFiles(JSONparse(normalizeJSON(text)), 1)

\* /\{\s*"files"\s*:\s*\[/ at position m.
FilesPatternAt(t, m) ==
  /\ t[m] = "{"
  /\ LET k == SkipWs(t, m + 1)
         c == SkipWs(t, k + 3)
         b == SkipWs(t, c + 1)
     IN /\ Occurs(t, <<DQ, "files", DQ>>, k)
        /\ c <= Len(t) /\ t[c] = ":"
        /\ b <= Len(t) /\ t[b] = "["

\* A search anchored at the start of the text.
searchFilesPatternAnchored(t) == IF Len(t) >= 1 /\ FilesPatternAt(t, 1) THEN 1 ELSE 0

\* normalizedText.search(jsonPattern)
searchFilesPattern(t) ==
  IF \E m \in 1..Len(t) : FilesPatternAt(t, m)
  THEN CHOOSE m \in 1..Len(t) :
         FilesPatternAt(t, m) /\ \A p \in 1..(m - 1) : ~FilesPatternAt(t, p)
  ELSE 0

\* One turn of the bracket-matching loop on character c at position i.
scanStep(st, c, i) ==
  IF st.endPos > 0 THEN st
  ELSE IF st.escapeNext THEN [st EXCEPT !.escapeNext = FALSE]
  ELSE IF c = BS THEN [st EXCEPT !.escapeNext = TRUE]
  ELSE IF c = DQ THEN [st EXCEPT !.inString = ~st.inString]
  ELSE IF st.inString THEN st
  ELSE IF c = "{" THEN [st EXCEPT !.braceCount = st.braceCount + 1]
  ELSE IF c = "}" THEN
    [st EXCEPT !.braceCount = st.braceCount - 1,
               !.endPos = IF st.braceCount - 1 = 0 THEN i ELSE 0]
  ELSE st

\* The loop over positions lo..hi, split in halves (the state is threaded
\* from left to right).
RECURSIVE scanRange(_, _, _, _)
scanRange(t, lo, hi, st) ==
  IF lo > hi THEN st
  ELSE IF lo = hi THEN scanStep(st, t[lo], lo)
  ELSE LET mid == (lo + hi) \div 2
           left == scanRange(t, lo, mid, st)
       IN IF left.endPos > 0 THEN left ELSE scanRange(t, mid + 1, hi, left)

\* The position of the brace that closes jsonText's first brace (endPos - 1
\* of the code, 1-based), or 0.
matchingBrace(jsonText) ==
  scanRange(jsonText, 1, Len(jsonText),
            [braceCount |-> 0, inString |-> FALSE, escapeNext |-> FALSE,
             endPos |-> 0]).endPos

\* JSON.parse of a repaired text, kept when it has files.
parseFixed(jsonText) == withFiles(JSONparse(tryFixTruncatedJSON(jsonText)), 2)

\* Strategy 2: bracket matching from the first {"files":[ of the normalized
\* text, with the truncation repair on a parse error or a missing brace.
strategy2(normalizedText) ==
  LET parsedSpan(span, r) == IF r.ok THEN withFiles(r, 2) ELSE parseFixed(span)
      matched(span) == parsedSpan(span, JSONparse(span))
      scanned(jsonText, endPos) ==
        IF endPos > 0 THEN matched(SubSeq(jsonText, 1, endPos))
        ELSE parseFixed(jsonText)
      from(jsonText) == scanned(jsonText, matchingBrace(jsonText))
      found(jsonMatch) ==
        IF jsonMatch = 0 THEN NoResult
        ELSE from(SubSeq(normalizedText, jsonMatch, Len(normalizedText)))
  IN found(searchFilesPattern(normalizedText))

\* The fenced-block pattern (a fence, an optional json, white space, a lazy
\* group, white space, a fence) at position m: the block's content starts
\* at BlockOpen and ends before the next fence.
BlockOpen(t, m) == IF m + 1 <= Len(t) /\ t[m + 1] = "json" THEN m + 2 ELSE m + 1

BlockAt(t, m) ==
  /\ t[m] = FENCE
  /\ \E k \in BlockOpen(t, m)..Len(t) : t[k] = FENCE

BlockClose(t, m) == indexOfFrom(t, <<FENCE>>, BlockOpen(t, m))

\* Strategy 3: the first code block from position i on that starts with a
\* brace and parses to an object with files.
RECURSIVE strategy3From(_, _)
strategy3From(t, i) ==
  IF \E m \in i..Len(t) : BlockAt(t, m)
  THEN LET tried(blockContent, r, k) ==
             IF startsWith(blockContent, <<"{">>) /\ HasFiles(r)
             THEN Extracted(r.v, 3)
             ELSE strategy3From(t, k + 1)
           block(blockContent, k) == tried(blockContent, JSONparse(blockContent), k)
           closed(m, k) == block(trim(SubSeq(t, BlockOpen(t, m), k - 1)), k)
           match(m) == closed(m, BlockClose(t, m))
       IN match(CHOOSE m \in i..Len(t) :
                  BlockAt(t, m) /\ \A p \in i..(m - 1) : ~BlockAt(t, p))
  ELSE NoResult

strategy3(normalizedText) == strategy3From(normalizedText, 1)

\* The last resort: the raw text between its first { and its last }.
lastResortText(text) ==
  LET upTo(cut, lastBrace) == IF lastBrace # 0 THEN SubSeq(cut, 1, lastBrace) ELSE cut
      fromBrace(cut) == upTo(cut, lastIndexOf(cut, <<"}">>))
      from(firstBrace) ==
        fromBrace(IF firstBrace > 1 THEN SubSeq(text, firstBrace, Len(text)) ELSE text)
  IN from(indexOf(text, <<"{">>))

\* Strategy 4: JSON.parse of the last-resort text.  A SyntaxError is wrapped
\* in the AgentError thrown; a parsed value without files falls through to
\* the final throw, which wraps nothing.
strategy4(text) ==
  LET last(r) == IF ~r.ok THEN AgentErrorWrapping ELSE withFiles(r, 4)
  IN last(JSONparse(lastResortText(text)))

\* parseResponse on the text block of the response.
\* The strategies tried with the bracket matching first.
firstMatchBracketFirst(s1, s2, s3, s4) ==
  IF s2.ok THEN s2
  ELSE IF s1.ok THEN s1
  ELSE IF s3.ok THEN s3
  ELSE s4

\* The strategies in the order of the code: each one's return ends the method.
firstMatch(s1, s2, s3, s4) ==
  IF s1.ok THEN s1
  ELSE IF s2.ok THEN s2
  ELSE IF s3.ok THEN s3
  ELSE s4

parseText(rawText) ==
  LET strategies(text, normalizedText) ==
        firstMatch(strategy1(text), strategy2(normalizedText), strategy3(normalizedText),
                   strategy4(text))
      on(text) == strategies(text, normalizeJSON(text))
  IN on(trim(rawText))

\* A response of the completion backend: its first text block, if it has one.
TextResponse(rawText) == [hasText |-> TRUE, text |-> rawText]
NoTextResponse == [hasText |-> FALSE, text |-> <<>>]

parseResponse(response) ==
  IF ~response.hasText THEN NoResult ELSE parseText(response.text)

\* ------------------------------------------------------ validateResult
\* DEFAULT_CONFIG.requiredFiles, each file name one word.
requiredFiles ==
  << <<"package.json">>, <<"tsconfig.json">>, <<"app/page.tsx">>,
     <<"app/layout.tsx">>, <<"app/api/ping/route.ts">>, <<"README.md">>,
     <<".gitignore">> >>

\* An error thrown: message is the text's fixed part and the name it embeds,
\* field and value the ValidationError's, originalError/expected whether an
\* AgentError wraps an Error and whether that Error's message has 'Expected'.
NoError ==
  [kind |-> "none", message |-> <<"", <<>>>>, field |-> "", value |-> <<>>,
   originalError |-> FALSE, expected |-> FALSE]
ValidationError(msg, name, field, value) ==
  [kind |-> "ValidationError", message |-> <<msg, name>>, field |-> field,
   value |-> value, originalError |-> FALSE, expected |-> FALSE]
AgentError(msg, originalError, expected) ==
  [kind |-> "AgentError", message |-> <<msg, <<>>>>, field |-> "", value |-> <<>>,
   originalError |-> originalError, expected |-> expected]

\* toLowerCase() on the words that differ from their lower case.
toLowerCase(content) ==
  [i \in 1..Len(content) |->
     IF content[i] = "TODO" THEN "todo"
     ELSE IF content[i] = "FIXME" THEN "fixme"
     ELSE IF content[i] = "Add" THEN "add"
     ELSE IF content[i] = "Implement" THEN "implement"
     ELSE IF content[i] = "Error" THEN "error"
     ELSE IF content[i] = "Not" THEN "not"
     ELSE content[i]]

includes(t, pat) == \E i \in 1..Len(t) : Occurs(t, pat, i)

placeholders ==
  { <<"/", "/", SP, "TODO">>,
    <<"/", "/", SP, "FIXME">>,
    <<"/", "/", SP, "Add", SP, "logic", SP, "here">>,
    <<"/", "/", SP, "Implement">>,
    <<"/", "*", SP, "TODO">>,
    <<"throw", SP, "new", SP, "Error", "(", DQ, "Not", SP, "implemented", DQ, ")">>,
    <<"console.log", "(", DQ, "TODO", DQ, ")">> }

hasPlaceholderCode(content) ==
  \E placeholder \in placeholders :
    includes(toLowerCase(content), toLowerCase(placeholder))

\* file.path / file.content of an element of the files array: a non-empty
\* string, or nothing usable (!x || typeof x !== 'string').
StringField(file, key) ==
  IF HasMember(file, <<key>>) /\ Member(file, <<key>>).t = "str"
  THEN Member(file, <<key>>).s
  ELSE <<>>

pathOf(file) == StringField(file, "path")
contentOf(file) == StringField(file, "content")

\* obj[key] is truthy.
TruthyMember(v, key) == HasMember(v, <<key>>) /\ Truthy(Member(v, <<key>>))

\* The checks on package.json with a catch block that turns every error of
\* the try block into the invalid-JSON error.
packageJsonErrorAllInvalidJSON(packageJson, plan) ==
  LET scripts == Member(packageJson, <<"scripts">>)
      dependencies == Member(packageJson, <<"dependencies">>)
      devDependencies == Member(packageJson, <<"devDependencies">>)
      name == IF HasMember(packageJson, <<"name">>)
              THEN Member(packageJson, <<"name">>) ELSE JArr(<<>>)
  IN IF \/ ~(name.t = "str" /\ name.s = plan.project_name)
        \/ ~TruthyMember(packageJson, "scripts")
        \/ \E x \in {"dev", "build", "start", "lint"} : ~TruthyMember(scripts, x)
        \/ ~TruthyMember(packageJson, "dependencies")
        \/ \E x \in {"next", "react", "react-dom"} : ~TruthyMember(dependencies, x)
        \/ ~TruthyMember(packageJson, "devDependencies")
        \/ ~TruthyMember(devDependencies, "typescript")
     THEN ValidationError("package.json has invalid JSON", <<>>, "package.json", <<>>)
     ELSE NoError

\* The checks of validatePackageJson on the parsed package.json, in order.
packageJsonError(packageJson, plan) ==
  LET scripts == Member(packageJson, <<"scripts">>)
      dependencies == Member(packageJson, <<"dependencies">>)
      devDependencies == Member(packageJson, <<"devDependencies">>)
      requiredScripts == <<"dev", "build", "start", "lint">>
      missingScript(x) ==
        ~TruthyMember(packageJson, "scripts") \/ ~TruthyMember(scripts, requiredScripts[x])
      name == IF HasMember(packageJson, <<"name">>)
              THEN Member(packageJson, <<"name">>) ELSE JArr(<<>>)
  IN IF ~(name.t = "str" /\ name.s = plan.project_name)
     THEN ValidationError("package.json name must match project name",
                          plan.project_name, "package.json.name", <<name.s>>)
     ELSE IF \E x \in 1..4 : missingScript(x)
     THEN LET x == CHOOSE x \in 1..4 :
                     missingScript(x) /\ \A y \in 1..(x - 1) : ~missingScript(y)
          IN ValidationError("package.json must have script", <<requiredScripts[x]>>,
                             "package.json.scripts", <<<<requiredScripts[x]>>>>)
     ELSE IF ~TruthyMember(packageJson, "dependencies") \/ ~TruthyMember(dependencies, "next")
     THEN ValidationError("package.json must have next dependency", <<>>,
                          "package.json.dependencies", <<<<"next">>>>)
     ELSE IF ~TruthyMember(dependencies, "react") \/ ~TruthyMember(dependencies, "react-dom")
     THEN ValidationError("package.json must have react and react-dom dependencies",
                          <<>>, "package.json.dependencies", <<<<"react">>>>)
     ELSE IF ~TruthyMember(packageJson, "devDependencies")
             \/ ~TruthyMember(devDependencies, "typescript")
     THEN ValidationError("package.json must have typescript in devDependencies",
                          <<>>, "package.json.devDependencies", <<<<"typescript">>>>)
     ELSE NoError

\* validatePackageJson(files, plan): the error it throws, or NoError.
validatePackageJson(files, plan) ==
  IF ~\E x \in 1..Len(files) : pathOf(files[x]) = <<"package.json">>
  THEN ValidationError("package.json is required", <<>>, "files", <<<<"package.json">>>>)
  ELSE LET parsed(content, r) ==
             IF ~r.ok
             THEN ValidationError("package.json has invalid JSON", <<>>, "package.json",
                                  <<content>>)
             ELSE packageJsonError(r.v, plan)
           packageJsonFile(content) == parsed(content, JSONparse(content))
       IN packageJsonFile(contentOf(files[CHOOSE x \in 1..Len(files) :
            /\ pathOf(files[x]) = <<"package.json">>
            /\ \A y \in 1..(x - 1) : pathOf(files[y]) # <<"package.json">>]))

\* The loop over the files with the placeholder scan before the check for
\* duplicates.
fileErrorPlaceholderFirst(files, x) ==
  LET file == files[x]
  IN IF pathOf(file) = <<>>
     THEN ValidationError("Each file must have a path", <<>>, "files[].path", <<>>)
     ELSE IF contentOf(file) = <<>>
     THEN ValidationError("File must have content", pathOf(file), "files[].content",
                          <<pathOf(file)>>)
     ELSE IF hasPlaceholderCode(contentOf(file))
     THEN ValidationError("File contains placeholder code", pathOf(file),
                          "files[].content", <<pathOf(file)>>)
     ELSE IF \E y \in 1..(x - 1) : pathOf(files[y]) = pathOf(file)
     THEN ValidationError("Duplicate file path", pathOf(file), "files[].path",
                          <<pathOf(file)>>)
     ELSE NoError

\* The loop over the files without the check for duplicates.
fileErrorNoDuplicateCheck(files, x) ==
  LET file == files[x]
  IN IF pathOf(file) = <<>>
     THEN ValidationError("Each file must have a path", <<>>, "files[].path", <<>>)
     ELSE IF contentOf(file) = <<>>
     THEN ValidationError("File must have content", pathOf(file), "files[].content",
                          <<pathOf(file)>>)
     ELSE IF hasPlaceholderCode(contentOf(file))
     THEN ValidationError("File contains placeholder code", pathOf(file),
                          "files[].content", <<pathOf(file)>>)
     ELSE NoError

\* The error the loop over the files throws at entry x, or NoError.
fileError(files, x) ==
  LET file == files[x]
  IN IF pathOf(file) = <<>>
     THEN ValidationError("Each file must have a path", <<>>, "files[].path", <<>>)
     ELSE IF contentOf(file) = <<>>
     THEN ValidationError("File must have content", pathOf(file), "files[].content",
                          <<pathOf(file)>>)
     ELSE IF \E y \in 1..(x - 1) : pathOf(files[y]) = pathOf(file)
     THEN ValidationError("Duplicate file path", pathOf(file), "files[].path",
                          <<pathOf(file)>>)
     ELSE IF hasPlaceholderCode(contentOf(file))
     THEN ValidationError("File contains placeholder code", pathOf(file),
                          "files[].content", <<pathOf(file)>>)
     ELSE NoError

\* The checks on the files array without the loop over the required files.
filesErrorNoRequiredFiles(files, plan) ==
  LET bad(x) == fileError(files, x).kind # "none"
  IN IF Len(files) = 0
     THEN ValidationError("Files array cannot be empty", <<>>, "files", <<>>)
     ELSE IF \E x \in 1..Len(files) : bad(x)
     THEN fileError(files, CHOOSE x \in 1..Len(files) :
                             bad(x) /\ \A y \in 1..(x - 1) : ~bad(y))
     ELSE validatePackageJson(files, plan)

\* validateResult(result, plan): the ValidationError it throws, or NoError.
filesError(files, plan) ==
  LET bad(x) == fileError(files, x).kind # "none"
      filePaths == {pathOf(files[x]) : x \in 1..Len(files)}
      missing(x) == requiredFiles[x] \notin filePaths
      missingFile(x) ==
        ValidationError("Missing required file", requiredFiles[x], "files",
                        [y \in 1..Len(files) |-> pathOf(files[y])])
  IN IF Len(files) = 0
     THEN ValidationError("Files array cannot be empty", <<>>, "files", <<>>)
     ELSE IF \E x \in 1..Len(files) : bad(x)
     THEN fileError(files, CHOOSE x \in 1..Len(files) :
                             bad(x) /\ \A y \in 1..(x - 1) : ~bad(y))
     ELSE IF \E x \in 1..Len(requiredFiles) : missing(x)
     THEN missingFile(CHOOSE x \in 1..Len(requiredFiles) :
                        missing(x) /\ \A y \in 1..(x - 1) : ~missing(y))
     ELSE validatePackageJson(files, plan)

validateResult(result, plan) ==
  IF ~HasMember(result, <<"files">>) \/ Member(result, <<"files">>).t # "arr"
  THEN ValidationError("Result must have files array", <<>>, "files", <<>>)
  ELSE filesError(Member(result, <<"files">>).es, plan)

\* -------------------------------------------------- autoFixCommonIssues
\* JSON.stringify of a string: the quoted string with its escapes.
unescapeName(c) ==
  IF c = "<bksp>" THEN <<BS, "b">>
  ELSE IF c = "<ff>" THEN <<BS, "f">>
  ELSE escapeChar(c)

quote(str) ==
  LET piece(i) == unescapeName(str[i]) IN <<DQ>> \o Concat(piece, 1, Len(str)) \o <<DQ>>

Spaces(n) == [i \in 1..n |-> SP]

\* JSON.stringify(value, null, 2) at the given indentation.
RECURSIVE stringify(_, _)
stringify(v, indent) ==
  LET inner == indent + 2
      element(i) ==
        (IF i = 1 THEN <<>> ELSE <<",">>) \o <<NL>> \o Spaces(inner)
          \o (IF v.t = "obj" THEN quote(v.es[i].s) \o <<":", SP>>
                                    \o stringify(v.es[i].es[1], inner)
              ELSE stringify(v.es[i], inner))
  IN IF v.t = "str" THEN quote(v.s)
     ELSE IF Len(v.es) = 0 THEN (IF v.t = "obj" THEN <<"{", "}">> ELSE <<"[", "]">>)
     ELSE (IF v.t = "obj" THEN <<"{">> ELSE <<"[">>)
            \o Concat(element, 1, Len(v.es)) \o <<NL>> \o Spaces(indent)
            \o (IF v.t = "obj" THEN <<"}">> ELSE <<"]">>)

\* /^\s*module\.exports\s*=\s*nextConfig/m matches with module.exports at
\* position p: only white space lies between a line start and p.
ExportAt(content, p) ==
  /\ content[p] = "module.exports"
  /\ LET q == SkipWsBack(content, p - 1)
     IN q = 0 \/ \E m \in (q + 1)..(p - 1) : content[m] \in {NL, CR}
  /\ LET e == SkipWs(content, p + 1)
         n == SkipWs(content, e + 1)
     IN /\ e <= Len(content) /\ content[e] = "="
        /\ n <= Len(content) /\ content[n] = "nextConfig"

\* The pattern without its m flag: ^ matches at the start of the content only.
hasExportAtStartOnly(content) ==
  \E p \in 1..Len(content) : ExportAt(content, p) /\ SkipWsBack(content, p - 1) = 0

hasExport(content) == \E p \in 1..Len(content) : ExportAt(content, p)

ExportStatement == <<NL, NL, "module.exports", SP, "=", SP, "nextConfig", NL>>

\* The fix of next.config.js on one content.
fixNextConfig(content) ==
  IF hasExport(content) THEN content ELSE trim(content) \o ExportStatement

\* path.endsWith('.tsx') || path.endsWith('.ts'), on the file names of the model.
endsWithTs(path) ==
  /\ path # <<>>
  /\ path[Len(path)] \in {"app/page.tsx", "app/layout.tsx", "app/api/ping/route.ts",
                          "lib/utils.ts"}

\* /from\s+['"]lib['"]|require\(['"]lib['"]\)/ matches in content.
importsLibrary(content, lib) ==
  \E p \in 1..Len(content) :
    \/ /\ content[p] = "from"
       /\ p + 1 <= Len(content) /\ IsSpace(content[p + 1])
       /\ LET q == SkipWs(content, p + 1)
          IN /\ q + 2 <= Len(content)
             /\ content[q] \in {SQ, DQ}
             /\ content[q + 1] = lib
             /\ content[q + 2] \in {SQ, DQ}
    \/ /\ p + 5 <= Len(content)
       /\ content[p] = "require" /\ content[p + 1] = "("
       /\ content[p + 2] \in {SQ, DQ}
       /\ content[p + 3] = lib
       /\ content[p + 4] \in {SQ, DQ}
       /\ content[p + 5] = ")"

\* The libraries the fixer knows, in the order it tests them, and the
\* versions it pins.
knownLibraries == <<"tailwind-merge", "clsx", "class-variance-authority">>

libraryVersions ==
  [lib \in {"tailwind-merge", "clsx", "class-variance-authority"} |->
     IF lib = "tailwind-merge" THEN "^2.5.4"
     ELSE IF lib = "clsx" THEN "^2.1.1"
     ELSE "^0.7.0"]

\* file.path / file.content of a file that passed validation.
withContent(file, content) ==
  [file EXCEPT !.es = PutMember(file.es, <<"content">>, JStr(content))]

\* usedLibraries after the loop: insertion order is the order of detection,
\* file by file and within a file in the order of knownLibraries.
usedIn(files, x) ==
  IF endsWithTs(pathOf(files[x]))
  THEN SelectSeq(knownLibraries, LAMBDA lib : importsLibrary(contentOf(files[x]), lib))
  ELSE <<>>

usedLibraries(files) ==
  LET all == Concat(LAMBDA x : usedIn(files, x), 1, Len(files))
  IN SelectSeq([i \in 1..Len(all) |-> <<i, all[i]>>],
               LAMBDA e : \A j \in 1..(e[1] - 1) : all[j] # e[2])

\* The loop writing the libraries into a fresh dependencies object.
addLibrariesFresh(packageJson, used, x) ==
  [packageJson EXCEPT
     !.es = PutMember(packageJson.es, <<"dependencies">>,
                      JObj([i \in 1..Len(used) |->
                              JPair(<<used[i][2]>>, JStr(<<libraryVersions[used[i][2]]>>))]))]

\* packageJson after the loop that adds the missing libraries, from the
\* x-th used library on.
RECURSIVE addLibraries(_, _, _)
addLibraries(packageJson, used, x) ==
  IF x > Len(used) THEN packageJson
  ELSE LET lib == used[x][2]
           has == TruthyMember(packageJson, "dependencies")
           added(dependencies) ==
             [dependencies EXCEPT
                !.es = PutMember(dependencies.es, <<lib>>, JStr(<<libraryVersions[lib]>>))]
           with(dependencies) ==
             IF has /\ TruthyMember(dependencies, lib)
             THEN addLibraries(packageJson, used, x + 1)
             ELSE addLibraries(
                    [packageJson EXCEPT
                       !.es = PutMember(packageJson.es, <<"dependencies">>,
                                        IF dependencies.t = "obj" THEN added(dependencies)
                                        ELSE dependencies)],
                    used, x + 1)
       IN with(IF has THEN Member(packageJson, <<"dependencies">>) ELSE JObj(<<>>))

\* The content of package.json after the dependency fix.  Assigning a
\* property to a parsed value that is no object (a string) throws a
\* TypeError in the try block, which leaves the file as it is.
fixPackageJson(content, used) ==
  LET writable(v) == v.t \in {"obj", "arr"}
      throws(packageJson) ==
        \/ /\ ~TruthyMember(packageJson, "dependencies")
           /\ ~writable(packageJson)
        \/ /\ TruthyMember(packageJson, "dependencies")
           /\ ~writable(Member(packageJson, <<"dependencies">>))
      modified(packageJson) ==
        \E x \in 1..Len(used) :
          ~(TruthyMember(packageJson, "dependencies")
            /\ TruthyMember(Member(packageJson, <<"dependencies">>), used[x][2]))
      fixed(packageJson) ==
        IF throws(packageJson) \/ ~modified(packageJson) THEN content
        ELSE stringify(IF packageJson.t = "obj" THEN addLibraries(packageJson, used, 1)
                       ELSE packageJson, 0)
      parsed(r) == IF ~r.ok THEN content ELSE fixed(r.v)
  IN parsed(JSONparse(content))

\* autoFixCommonIssues(files): the files array after the in-place fixes.
autoFixCommonIssues(files) ==
  LET isPackageJson(x) ==
        /\ pathOf(files[x]) = <<"package.json">>
        /\ \A y \in 1..(x - 1) : pathOf(files[y]) # <<"package.json">>
      configFixed(x) ==
        IF pathOf(files[x]) = <<"next.config.js">>
        THEN fixNextConfig(contentOf(files[x]))
        ELSE contentOf(files[x])
      fixedWith(used) ==
        [x \in 1..Len(files) |->
           IF Len(used) > 0 /\ isPackageJson(x)
           THEN withContent(files[x], fixPackageJson(configFixed(x), used))
           ELSE IF pathOf(files[x]) = <<"next.config.js">>
           THEN withContent(files[x], configFixed(x))
           ELSE files[x]]
  IN fixedWith(usedLibraries(files))

\* ------------------------------------------- the completion backend
\* What the backend may answer.  A well-formed answer has the structure the
\* system prompt asks for: {"files":[{"path":"...","content":"..."}]}.
MaxFiles == 2
MaxCut == 8

Paths == <<"a.txt", "b.txt", "c.txt">>

\* File bodies: plain, with a line break, with a double quote, and with the
\* two characters the repair searches for.
Contents == { <<"h", "i">>, <<"h", NL, "i">>, <<"w", DQ, "o">>, <<"}", ",">> }

Collections ==
  UNION { [1..n -> Contents] : n \in 0..MaxFiles }

\* One entry with the content spelled by `body` (escaped or not).
EntryWith(path, body) ==
  <<"{", DQ, "path", DQ, ":", DQ, path, DQ, ",", DQ, "content", DQ, ":", DQ>>
    \o body \o <<DQ, "}">>

PayloadWith(entry(_), n) ==
  LET piece(i) == (IF i = 1 THEN <<>> ELSE <<",">>) \o entry(i)
  IN <<"{", DQ, "files", DQ, ":", "[">> \o Concat(piece, 1, n) \o <<"]", "}">>

\* The payload with every content correctly escaped.
Payload(c) ==
  LET entry(i) == EntryWith(Paths[i], escapeContent(c[i])) IN PayloadWith(entry, Len(c))

\* The payload with line breaks left as they are inside the content.
rawChar(ch) == IF ch = NL THEN <<NL>> ELSE escapeChar(ch)
RawPayload(c) ==
  LET body(i) == Concat(LAMBDA k : rawChar(c[i][k]), 1, Len(c[i]))
      entry(i) == EntryWith(Paths[i], body(i))
  IN PayloadWith(entry, Len(c))

Prose == <<"H", "e", "r", "e", ":", NL>>
Closing == <<NL, "E", "n", "j", "o", "y", "!">>

Fenced(payload) == Prose \o <<FENCE, "json", NL>> \o payload \o <<NL, FENCE>> \o Closing
Prefixed(payload) == Prose \o payload
Truncated(payload, k) == SubSeq(payload, 1, Len(payload) - k)

\* A complete project for the plan's name, package.json first.
packageJsonValue(name) ==
  LET pair(k, v) == JPair(<<k>>, JStr(<<v>>))
  IN JObj(<< JPair(<<"name">>, JStr(name)),
             JPair(<<"scripts">>,
                   JObj(<<pair("dev", "x"), pair("build", "x"), pair("start", "x"),
                          pair("lint", "x")>>)),
             JPair(<<"dependencies">>,
                   JObj(<<pair("next", "v"), pair("react", "v"),
                          pair("react-dom", "v")>>)),
             JPair(<<"devDependencies">>, JObj(<<pair("typescript", "v")>>)) >>)

\* JSON.stringify(value) without indentation.
RECURSIVE compact(_)
compact(v) ==
  LET element(i) ==
        (IF i = 1 THEN <<>> ELSE <<",">>)
          \o (IF v.t = "obj" THEN quote(v.es[i].s) \o <<":">> \o compact(v.es[i].es[1])
              ELSE compact(v.es[i]))
  IN IF v.t = "str" THEN quote(v.s)
     ELSE (IF v.t = "obj" THEN <<"{">> ELSE <<"[">>)
            \o Concat(element, 1, Len(v.es))
            \o (IF v.t = "obj" THEN <<"}">> ELSE <<"]">>)

ProjectPayload(name) ==
  LET body(i) == IF i = 1 THEN escapeContent(compact(packageJsonValue(name)))
                 ELSE <<"o", "k">>
      entry(i) == EntryWith(requiredFiles[i][1], body(i))
  IN PayloadWith(entry, Len(requiredFiles))

\* An entry with the path and the content spelled by their lexemes.
EntryOf(path, body) ==
  <<"{", DQ, "path", DQ, ":", DQ>> \o path
    \o <<DQ, ",", DQ, "content", DQ, ":", DQ>> \o body \o <<DQ, "}">>

\* The payload that spells a collection given as <<path, content>> pairs.
FilesPayload(fs) ==
  PayloadWith(LAMBDA i : EntryOf(fs[i][1], escapeContent(fs[i][2])), Len(fs))

\* The required files in their order, package.json with the given content.
ProjectFiles(packageJson) ==
  [i \in 1..Len(requiredFiles) |->
     <<requiredFiles[i], IF i = 1 THEN packageJson ELSE <<"o", "k">>>>]

\* A collection that passes validation for the plan named my-app.
ValidProject == ProjectFiles(compact(packageJsonValue(<<"my-app">>)))

\* fs without its i-th entry, with another content in its i-th entry, and
\* with one more entry.
Without(fs, i) == SubSeq(fs, 1, i - 1) \o SubSeq(fs, i + 1, Len(fs))
Holding(fs, i, content) == [fs EXCEPT ![i] = <<fs[i][1], content>>]
Plus(fs, path, content) == Append(fs, <<path, content>>)

Placeholder == <<"/", "/", SP, "TODO">>

\* Collections that break one rule of validateResult, or several.
InvalidProjects ==
  { Plus(ValidProject, <<"README.md">>, <<"o", "k">>),
    Plus(ValidProject, <<"README.md">>, <<>>),
    Plus(ValidProject, <<"README.md">>, Placeholder),
    Plus(ValidProject, <<>>, <<>>),
    Plus(Holding(ValidProject, 2, <<>>), <<"README.md">>, <<"o", "k">>),
    Plus(Holding(ValidProject, 6, Placeholder), <<"README.md">>, <<"o", "k">>),
    Plus(Holding(ValidProject, 3, Placeholder), <<"README.md">>, <<"o", "k">>),
    Holding(Holding(ValidProject, 2, Placeholder), 5, <<>>),
    Holding(ValidProject, 4, Placeholder),
    Plus(Plus(ValidProject, <<"README.md">>, <<"o", "k">>), <<>>, <<"o", "k">>),
    Plus(ValidProject, <<>>, <<"o", "k">>),
    Holding(Without(ValidProject, 7), 2, Placeholder),
    Without(ProjectFiles(compact(packageJsonValue(<<"other-app">>))), 4),
    ProjectFiles(<<"{", "o", "o", "p", "s">>),
    ProjectFiles(compact(JStr(<<"my-app">>))) }
    \cup { Without(ValidProject, i) : i \in 1..Len(requiredFiles) }

\* package.json of a complete project that declares further dependencies
\* (pairs of a library and its version).
packageJsonDeclaring(name, declared) ==
  [packageJsonValue(name) EXCEPT !.es[3].es[1].es = @ \o declared]

Declarations ==
  { <<>>,
    <<JPair(<<"clsx">>, JStr(<<"^1.0.0">>))>>,
    <<JPair(<<"clsx">>, JStr(<<>>))>> }

\* Contents of app/page.tsx: without imports, with an import of clsx, and
\* with a require and a single-quoted import of the two other libraries.
PageContents ==
  { <<"o", "k">>,
    <<"import", SP, "clsx", SP, "from", SP, DQ, "clsx", DQ>>,
    <<"require", "(", SQ, "tailwind-merge", SQ, ")", NL,
      "import", SP, "cva", SP, "from", NL, SQ, "class-variance-authority", SQ>> }

\* Contents of next.config.js: <<>> stands for a project without the file.
ConfigBody == <<"const", SP, "nextConfig", SP, "=", SP, "{", "}">>
ExportLine == <<"module.exports", SP, "=", SP, "nextConfig">>

ConfigContents ==
  { <<>>,
    ConfigBody,
    ConfigBody \o <<NL>> \o ExportLine }

OtherConfigContents ==
  { ConfigBody \o <<NL, SP, TAB>>,
    ConfigBody \o <<NL, "/", "/", SP>> \o ExportLine,
    <<SP, SP>> \o ExportLine \o <<NL>> \o ConfigBody,
    ConfigBody \o <<NL, "export", SP, "default", SP, "nextConfig", NL>>,
    ConfigBody \o <<";", SP>> \o ExportLine }

\* A package.json whose description spells a comment marker with escaped
\* slashes, which JSON.parse reads as plain slashes.
EscapedMarker == <<BS, "/", BS, "/", SP, "TODO">>

packageJsonDescribed ==
  <<"{", DQ, "description", DQ, ":", DQ>> \o EscapedMarker \o <<DQ, ",">>
    \o Tail(compact(packageJsonValue(<<"my-app">>)))

\* A complete project with the given page, declarations and next.config.js.
FixableProject(page, declared, config) ==
  LET with(fs) == IF config = <<>> THEN fs ELSE Plus(fs, <<"next.config.js">>, config)
  IN with(Holding(ProjectFiles(compact(packageJsonDeclaring(<<"my-app">>, declared))),
                  3, page))

\* Collections that pass validateResult and give autoFixCommonIssues work,
\* one that imports in a file that is no .ts or .tsx file, and one whose
\* package.json does not parse.
FixableProjects ==
  { FixableProject(page, declared, config) :
      page \in PageContents, declared \in Declarations, config \in ConfigContents }
    \cup { FixableProject(<<"o", "k">>, <<>>, config) : config \in OtherConfigContents }
    \cup { Holding(ValidProject, 6, <<"from", SP, DQ, "clsx", DQ>>),
           Holding(ProjectFiles(<<"{", "o", "o", "p", "s">>), 3,
                   <<"from", SP, DQ, "clsx", DQ>>),
           Holding(ProjectFiles(packageJsonDescribed), 3, <<"from", SP, DQ, "clsx", DQ>>),
           ProjectFiles(packageJsonDescribed) }

\* Answers of other shapes: no JSON at all, JSON without files, a files value
\* that is no array, an inner object that also has files, single quotes.
OtherTexts ==
  { <<"S", "o", "r", "r", "y">>,
    <<"{", DQ, "path", DQ, ":", DQ, "a.txt", DQ, "}">>,
    <<"{", DQ, "files", DQ, ":", DQ, "x", DQ, "}">>,
    <<"{", DQ, "files", DQ, ":", DQ, DQ, "}">>,
    <<"{", DQ, "files", DQ, ":", "{", "}", "}">>,
    <<"{", DQ, "x", DQ, ":", "{", DQ, "files", DQ, ":", "[", "]", "}", ",",
      DQ, "files", DQ, ":", "[">> \o EntryWith("a.txt", <<"h", "i">>) \o <<"]", "}">>,
    <<"{", DQ, "files", DQ, ":", "[", "{", DQ, "path", DQ, ":", SQ, "a.txt", SQ, ",",
      DQ, "content", DQ, ":", SQ, "h", "i", SQ, "}", "]", "}">>,
    ProjectPayload(<<"my-app">>),
    ProjectPayload(<<"other-app">>) }

\* A payload after prose whose object opens with another member than files:
\* no strategy before the last resort finds it.
Noted(payload) ==
  Prose \o <<"{", DQ, "note", DQ, ":", DQ, "x", DQ, ",">> \o Tail(payload)

NotedTexts ==
  UNION { {Noted(Payload(<<c>>)), Noted(RawPayload(<<c>>))}
          : c \in { <<"h", "i">>, <<"h", NL, "i">> } }

Texts ==
  UNION { {Payload(c), RawPayload(c), Fenced(Payload(c)), Prefixed(Payload(c))}
            \cup {Truncated(Payload(c), k) : k \in 1..MaxCut}
          : c \in Collections }
    \cup OtherTexts
    \cup {FilesPayload(fs) : fs \in InvalidProjects \cup FixableProjects}
    \cup NotedTexts

Responses == {TextResponse(t) : t \in Texts} \cup {NoTextResponse}

\* -------------------------------------------------------- generateCode
maxRetries == 2

\* The plans generateCode is called with: a complete one and one without a
\* project name.
Plans ==
  { [project_name |-> <<"my-app">>, framework |-> <<"Next.js">>, files |-> 7],
    [project_name |-> <<>>, framework |-> <<"Next.js">>, files |-> 7] }

\* validatePlan(plan): the ValidationError it throws, or NoError.
validatePlan(plan) ==
  IF plan.project_name = <<>>
  THEN ValidationError("Plan must have a project_name", <<>>, "plan.project_name", <<>>)
  ELSE IF plan.framework = <<>>
  THEN ValidationError("Plan must have a stack with framework", <<>>, "plan.stack", <<>>)
  ELSE IF plan.files = 0
  THEN ValidationError("Plan must have files array", <<>>, "plan.files", <<>>)
  ELSE NoError

\* Every AgentError taken for a truncation.
isTruncationErrorAnyAgentError(error) == error.kind = "AgentError"

\* error instanceof AgentError && error.originalError instanceof Error &&
\* error.originalError.message.includes('Expected')
isTruncationError(error) ==
  error.kind = "AgentError" /\ error.originalError /\ error.expected

\* The retry condition with the count compared by <=.
shouldRetryOnceMore(error, count) ==
  (error.kind = "ValidationError" \/ isTruncationError(error)) /\ count <= maxRetries

\* The retry condition without the test of the error's class.
shouldRetryAnyError(error, count) == count < maxRetries

\* The condition of the retry in the catch block.
shouldRetry(error, count) ==
  (error.kind = "ValidationError" \/ isTruncationError(error)) /\ count < maxRetries

\* What the catch block throws when it does not retry: the error itself, or
\* an AgentError that wraps a foreign error.
rethrown(error) ==
  IF error.kind \in {"AgentError", "ValidationError"} THEN error
  ELSE AgentError("Failed to generate code", TRUE, error.expected)

\* The error of the try block on a response, or NoError.  `expected` tells
\* whether the message of the SyntaxError that the last JSON.parse throws
\* contains 'Expected' (it depends on the engine and on the kind of syntax
\* error).
tryError(response, plan, expected) ==
  LET parsed(out) ==
        IF ~out.ok /\ out.originalError
        THEN AgentError("Failed to parse Dev Agent response as JSON", TRUE, expected)
        ELSE IF ~out.ok
        THEN AgentError("Failed to extract valid JSON from response", FALSE, FALSE)
        ELSE validateResult(out.parsed, plan)
  IN IF ~response.hasText THEN AgentError("No text content in response", FALSE, FALSE)
     ELSE parsed(parseResponse(response))

\* ------------------------------------------------------------ PM agent
\* The planning agent (PMAgent): parseResponse and validateResult of its
\* single call.  Project names are spelled character by character.
minFiles == 5
maxFiles == 15

\* Words that stand for a text of the length the code compares with: a PRD
\* of 50 characters, a brief of 10.  Every other lexeme of a prd or a brief
\* is one character.
PRDText == "<prd of 50 characters>"
BriefText == "<brief of 10 characters>"

charCount(c) == IF c = PRDText THEN 50 ELSE IF c = BriefText THEN 10 ELSE 1

\* String.prototype.length
RECURSIVE length(_)
length(str) == IF str = <<>> THEN 0 ELSE charCount(Head(str)) + length(Tail(str))

\* text.includes('```json')
includesJsonFence(text) ==
  \E m \in 1..(Len(text) - 1) : text[m] = FENCE /\ text[m + 1] = "json"

\* The first match of the block pattern whose opening is `open` lexemes
\* long (the fence and json, or the fence alone): match[1], or no match.
\* The greedy \s* after the opening and the lazy group before \s* and the
\* closing fence leave the block's text without the white space around it.
pmBlock(text, open) ==
  LET opens(m) ==
        /\ text[m] = FENCE
        /\ open = 2 => (m + 1 <= Len(text) /\ text[m + 1] = "json")
        /\ \E k \in (m + open)..Len(text) : text[k] = FENCE
      group(m) ==
        trim(SubSeq(text, m + open, indexOfFrom(text, <<FENCE>>, m + open) - 1))
  IN IF \E m \in 1..Len(text) : opens(m)
     THEN [match |-> TRUE,
           group |-> group(CHOOSE m \in 1..Len(text) :
                             opens(m) /\ \A p \in 1..(m - 1) : ~opens(p))]
     ELSE [match |-> FALSE, group |-> <<>>]

\* jsonText of parseResponse: the text, or the first code block in it.
pmJsonText(text) ==
  LET pick(block) == IF block.match THEN block.group ELSE text
  IN IF includesJsonFence(text) THEN pick(pmBlock(text, 2))
     ELSE IF includes(text, <<FENCE>>) THEN pick(pmBlock(text, 1))
     ELSE text

\* PMAgent.parseResponse on the text block: the parsed value, whatever it
\* is, or the AgentError that wraps the SyntaxError.
pmParseText(rawText) ==
  LET parsed(r) == IF r.ok THEN Extracted(r.v, 1) ELSE AgentErrorWrapping
  IN parsed(JSONparse(pmJsonText(trim(rawText))))

pmParseResponse(response) ==
  IF ~response.hasText THEN NoResult ELSE pmParseText(response.text)

\* /^[a-z0-9]+(-[a-z0-9]+)*$/ on a name spelled in characters.
LowerAlnum ==
  {"a", "b", "c", "d", "e", "f", "g", "h", "i", "j", "k", "l", "m", "n", "o", "p",
   "q", "r", "s", "t", "u", "v", "w", "x", "y", "z",
   "0", "1", "2", "3", "4", "5", "6", "7", "8", "9"}

kebabCaseRegex(name) ==
  /\ name # <<>>
  /\ \A i \in 1..Len(name) : name[i] \in LowerAlnum \cup {"-"}
  /\ name[1] # "-" /\ name[Len(name)] # "-"
  /\ \A i \in 1..(Len(name) - 1) : ~(name[i] = "-" /\ name[i + 1] = "-")

\* !x || typeof x !== 'string' is false: x is a non-empty string.
NonEmptyString(v, key) ==
  HasMember(v, <<key>>) /\ Member(v, <<key>>).t = "str" /\ Member(v, <<key>>).s # <<>>

\* !x || typeof x !== 'object' is false: x is an object or an array.
IsObject(v, key) == HasMember(v, <<key>>) /\ Member(v, <<key>>).t \in {"obj", "arr"}

pmRequiredFiles ==
  << <<"package.json">>, <<"tsconfig.json">>, <<"app/page.tsx">>,
     <<"app/layout.tsx">>, <<"README.md">>, <<".gitignore">> >>

\* The checks of validateResult on plan.files, an array.
pmFilesError(files) ==
  LET filePaths == {pathOf(files[x]) : x \in 1..Len(files)}
      missing(x) == pmRequiredFiles[x] \notin filePaths
      noPath(x) == ~NonEmptyString(files[x], "path")
      bad(x) == noPath(x) \/ ~NonEmptyString(files[x], "purpose")
      entryError(x) ==
        IF noPath(x)
        THEN ValidationError("Each file must have a path", <<>>, "plan.files[].path", <<>>)
        ELSE ValidationError("Each file must have a purpose", <<>>, "plan.files[].purpose",
                             <<>>)
  IN IF Len(files) < minFiles
     THEN ValidationError("Too few files", <<>>, "plan.files", <<Len(files)>>)
     ELSE IF Len(files) > maxFiles
     THEN ValidationError("Too many files", <<>>, "plan.files", <<Len(files)>>)
     ELSE IF \E x \in 1..Len(pmRequiredFiles) : missing(x)
     THEN ValidationError("Missing required file",
                          pmRequiredFiles[CHOOSE x \in 1..Len(pmRequiredFiles) :
                            missing(x) /\ \A y \in 1..(x - 1) : ~missing(y)],
                          "plan.files", <<>>)
     ELSE IF \E x \in 1..Len(files) : bad(x)
     THEN entryError(CHOOSE x \in 1..Len(files) : bad(x) /\ \A y \in 1..(x - 1) : ~bad(y))
     ELSE NoError

\* The checks of validateResult on result.plan, an object or an array.
pmPlanError(plan) ==
  LET stackError(stack) ==
        IF \E key \in {"framework", "language", "styling"} : ~TruthyMember(stack, key)
        THEN ValidationError("Stack must include framework, language, and styling", <<>>,
                             "plan.stack", <<>>)
        ELSE IF ~HasMember(plan, <<"files">>) \/ Member(plan, <<"files">>).t # "arr"
        THEN ValidationError("Files must be an array", <<>>, "plan.files", <<>>)
        ELSE pmFilesError(Member(plan, <<"files">>).es)
  IN IF ~NonEmptyString(plan, "project_name")
     THEN ValidationError("Project name must be a non-empty string", <<>>,
                          "plan.project_name", <<>>)
     ELSE IF ~kebabCaseRegex(Member(plan, <<"project_name">>).s)
     THEN ValidationError("Project name must be in kebab-case format", <<>>,
                          "plan.project_name", <<Member(plan, <<"project_name">>).s>>)
     ELSE IF ~IsObject(plan, "stack")
     THEN ValidationError("Stack must be an object", <<>>, "plan.stack", <<>>)
     ELSE stackError(Member(plan, <<"stack">>))

\* PMAgent.validateResult(result): the ValidationError it throws, or NoError.
pmValidateResult(result) ==
  IF ~NonEmptyString(result, "prd")
  THEN ValidationError("PRD must be a non-empty string", <<>>, "prd", <<>>)
  ELSE IF length(Member(result, <<"prd">>).s) < 50
  THEN ValidationError("PRD is too short", <<>>, "prd",
                       <<length(Member(result, <<"prd">>).s)>>)
  ELSE IF ~IsObject(result, "plan")
  THEN ValidationError("Plan must be an object", <<>>, "plan", <<>>)
  ELSE pmPlanError(Member(result, <<"plan">>))

\* What the backend may answer to the planning request: results as the
\* system prompt asks for them, results that break a rule of validateResult,
\* and the valid result inside prose and code blocks.
PlanFile(path, purpose) ==
  JObj(<<JPair(<<"path">>, JStr(path)), JPair(<<"purpose">>, JStr(purpose))>>)

RequiredPlanFiles ==
  [i \in 1..Len(pmRequiredFiles) |-> PlanFile(pmRequiredFiles[i], <<"x">>)]

StackValue(keys) == JObj([i \in 1..Len(keys) |-> JPair(<<keys[i]>>, JStr(<<"x">>))])

FullStack == StackValue(<<"framework", "language", "styling">>)

PlanValue(name, stack, files) ==
  JObj(<<JPair(<<"project_name">>, JStr(name)), JPair(<<"stack">>, stack),
         JPair(<<"files">>, files)>>)

PRDResult(prd, planValue) ==
  JObj(<<JPair(<<"prd">>, JStr(prd)), JPair(<<"plan">>, planValue)>>)

ProjectName == <<"t", "o", "-", "d", "o">>

\* A result with the given files and everything else in order.
ResultWithFiles(files) ==
  PRDResult(<<PRDText>>, PlanValue(ProjectName, FullStack, JArr(files)))

ValidPlanResult == ResultWithFiles(RequiredPlanFiles)

PlanResults ==
  { ValidPlanResult,
    ResultWithFiles(Append(RequiredPlanFiles, PlanFile(<<"README.md">>, <<"x">>))),
    ResultWithFiles(Append(RequiredPlanFiles, PlanFile(<<"lib/utils.ts">>, <<"x">>))),
    ResultWithFiles(Append(RequiredPlanFiles, PlanFile(<<>>, <<"x">>))),
    ResultWithFiles(Append(RequiredPlanFiles, PlanFile(<<"lib/utils.ts">>, <<>>))),
    ResultWithFiles(Append(RequiredPlanFiles, JStr(<<"lib/utils.ts">>))),
    ResultWithFiles(SubSeq(RequiredPlanFiles, 1, minFiles - 1)),
    ResultWithFiles(RequiredPlanFiles
                      \o [i \in 1..(maxFiles + 1 - Len(pmRequiredFiles)) |-> PlanFile(<<"lib/utils.ts">>, <<"x">>)]),
    ResultWithFiles(Without(RequiredPlanFiles, 5)),
    PRDResult(<<"h", "i">>, PlanValue(ProjectName, FullStack, JArr(RequiredPlanFiles))),
    JObj(<<JPair(<<"plan">>, PlanValue(ProjectName, FullStack, JArr(RequiredPlanFiles)))>>),
    JArr(<<>>),
    PRDResult(<<PRDText>>, JStr(<<"x">>)),
    PRDResult(<<PRDText>>, JArr(<<>>)),
    PRDResult(<<PRDText>>, PlanValue(<<>>, FullStack, JArr(RequiredPlanFiles))),
    PRDResult(<<PRDText>>, PlanValue(<<"T", "o">>, FullStack, JArr(RequiredPlanFiles))),
    PRDResult(<<PRDText>>, PlanValue(<<"t", "o", "-">>, FullStack, JArr(RequiredPlanFiles))),
    PRDResult(<<PRDText>>, PlanValue(<<"t", "-", "-", "o">>, FullStack,
                                     JArr(RequiredPlanFiles))),
    PRDResult(<<PRDText>>, PlanValue(ProjectName, JStr(<<"x">>), JArr(RequiredPlanFiles))),
    PRDResult(<<PRDText>>, PlanValue(ProjectName, StackValue(<<"framework", "language">>),
                                     JArr(RequiredPlanFiles))),
    PRDResult(<<PRDText>>, PlanValue(ProjectName, FullStack, JObj(<<>>))) }

\* The shapes an answer gives its payload: bare, after prose, in a fenced
\* json block between prose, in a fenced block without the json tag, and in
\* a fenced json block that follows another code block.
ShapeNames == {"bare", "prefixed", "fenced", "plain fence", "later fence"}

Shaped(shape, payload) ==
  IF shape = "prefixed" THEN Prefixed(payload)
  ELSE IF shape = "fenced" THEN Fenced(payload)
  ELSE IF shape = "plain fence" THEN Prose \o <<FENCE, NL>> \o payload \o <<NL, FENCE>>
  ELSE IF shape = "later fence"
  THEN Prose \o <<FENCE, "bash", NL, "n", "p", "m", NL, FENCE, NL>>
         \o <<FENCE, "json", NL>> \o payload \o <<NL, FENCE>>
  ELSE payload

\* The valid result with a literal line break inside its prd string.
RawPlanText ==
  <<"{", DQ, "prd", DQ, ":", DQ, PRDText, NL, DQ, ",", DQ, "plan", DQ, ":">>
    \o compact(Member(ValidPlanResult, <<"plan">>)) \o <<"}">>

PlanTexts ==
  {compact(v) : v \in PlanResults}
    \cup {Shaped(shape, compact(ValidPlanResult)) : shape \in ShapeNames}
    \cup {RawPlanText, <<"S", "o", "r", "r", "y">>}

PlanResponses == {TextResponse(t) : t \in PlanTexts} \cup {NoTextResponse}

\* The briefs generatePRD is called with.
Briefs ==
  { <<>>, <<SP, NL>>, <<"a", "p", "p">>, <<BriefText>>, <<BriefText, SP, "x">>,
    [i \in 1..9 |-> "a"], <<SP, SP, SP, SP, "a", "p", "p", SP, SP, SP>> }

\* The input checks without the check of the length.
briefErrorEmptyOnly(brief) ==
  IF brief = <<>> \/ length(trim(brief)) = 0
  THEN ValidationError("Brief cannot be empty", <<>>, "brief", <<>>)
  ELSE NoError

\* The ValidationError of generatePRD's input checks, or NoError.
briefError(brief) ==
  IF brief = <<>> \/ length(trim(brief)) = 0
  THEN ValidationError("Brief cannot be empty", <<>>, "brief", <<>>)
  ELSE IF length(brief) < 10
  THEN ValidationError("Brief is too short", <<>>, "brief", <<length(brief)>>)
  ELSE NoError

\* The error of generatePRD's try block on a response, or NoError.
pmTryError(response) ==
  LET parsed(out) ==
        IF ~out.ok
        THEN AgentError("Failed to parse PM Agent response as JSON", TRUE, FALSE)
        ELSE pmValidateResult(out.parsed)
  IN IF ~response.hasText THEN AgentError("No text content in response", FALSE, FALSE)
     ELSE parsed(pmParseResponse(response))

\* A behaviour is one use of one component: a call of generateCode of the
\* Dev agent, a call of generatePRD of the PM agent, calls of createProject
\* of GitHubDirect, a call of deployProject of VercelIntegration, or a
\* request to POST /api/create (the code that chains them is not among the
\* sources).
VARIABLES
  pc,          \* where the call is: idle, awaiting, backoff, succeeded, failed
               \* (generateCode); planning, planned, rejected (generatePRD);
               \* publishing (GitHubDirect); deploying (VercelIntegration);
               \* streaming (POST /api/create)
  plan,        \* the plan generateCode was called with
  retryCount,  \* the retryCount argument of the current call
  requests,    \* the calls of client.messages.create so far
  response,    \* the last response of the backend
  extraction,  \* what parseResponse made of it: its return value, or its failure
  error,       \* the last error caught or thrown
  result,      \* devResult.files of a successful run
  outcomes,    \* how each attempt ended
  prompts,     \* the system and user prompts of the requests sent so far
  pm,          \* generatePRD: its brief, the requests sent, the response, what
               \* parseResponse made of it, and the error thrown
  gh,          \* GitHubDirect: the host's repositories, the workspace directory
               \* and the createProject calls in progress
  vercel,      \* VercelIntegration: the deployProject call in progress
  sse          \* POST /api/create: the events enqueued and the stream's state

vars ==
  <<pc, plan, retryCount, requests, response, extraction, error, result, outcomes,
    prompts, pm, gh, vercel, sse>>

\* The variables of the integrations and of the route, which the agents do
\* not touch.
integrations == <<gh, vercel, sse>>

\* The system prompt of the Dev agent, a constant text.
SYSTEM_PROMPT == <<"<system prompt>">>

\* formatPlanDescription(plan): the name, the stack and one line per file.
formatPlanDescription(p) ==
  <<"<name>", SP>> \o p.project_name \o <<NL, "<stack>", SP>> \o p.framework
    \o <<NL, NL, "<files>">> \o [i \in 1..p.files |-> "<file line>"]

\* The request with a preview of the last response added to the user prompt.
messageParamsWithPreview(p) ==
  [system |-> SYSTEM_PROMPT,
   user |-> <<"Development Plan:", NL>> \o formatPlanDescription(p)
              \o <<NL, NL, "<instructions>">> \o response.text]

\* The parameters createMessageWithTimeout(plan) hands to messages.create.
messageParams(p) ==
  [system |-> SYSTEM_PROMPT,
   user |-> <<"Development Plan:", NL>> \o formatPlanDescription(p)
              \o <<NL, NL, "<instructions>">>]

NoPlanning ==
  [brief |-> <<>>, requests |-> 0, response |-> NoTextResponse, extraction |-> NoResult,
   error |-> NoError]

\* ---------------------------------------------------------- GitHubDirect
\* The calls of createProject that may run at the same time on one
\* GitHubDirect object (one workspaceDir, one owner).
Callers == {1, 2}

\* Project names and file collections createProject is called with; a file
\* is a <<path, content>> pair.
GitHubNames == {"", "my-app", "other-app"}
RepoNames == GitHubNames \ {""}

FilesA == << <<"a.txt", "A1">>, <<"b.txt", "A2">> >>
FilesB == << <<"a.txt", "B1">> >>
GitHubCollections == {<<>>, FilesA, FilesB}

EntriesOf(files) == {files[i] : i \in 1..Len(files)}

\* A branch of a repository and the commit it points to; the tree of a
\* commit.
MainRef == "refs/heads/main"
DevRef == "refs/heads/dev"
RefAt(ref, sha) == [ref |-> ref, sha |-> sha]
TreeOf(sha) == <<"tree", sha>>

NoRepository == [exists |-> FALSE, refs |-> <<>>]
Repository(refs) == [exists |-> TRUE, refs |-> refs]

\* What the host holds when the calls start: no repository named my-app, an
\* empty one, or one with branches (listed in alphabetical order).
HostStates ==
  { [n \in RepoNames |-> IF n = "my-app" THEN repo ELSE NoRepository] :
      repo \in { NoRepository,
                 Repository(<<>>),
                 Repository(<<RefAt(MainRef, 1)>>),
                 Repository(<<RefAt(DevRef, 1)>>),
                 Repository(<<RefAt(DevRef, 1), RefAt(MainRef, 2)>>) } }

\* readDir: the files of a workspace directory in the order of their names.
PathOrder == <<"a.txt", "b.txt">>

Listing(dir) ==
  LET present == SelectSeq(PathOrder, LAMBDA q : \E e \in dir : e[1] = q)
  IN [i \in 1..Len(present) |-> CHOOSE e \in dir : e[1] = present[i]]

NoGitHubError == [kind |-> "none", at |-> ""]
GitHubError(kind, at) == [kind |-> kind, at |-> at]

\* createRepository without the handling of the 422 reply.
createRepositoryStrict(reply, lookup) ==
  IF reply = "created" THEN [ok |-> TRUE, at |-> ""]
  ELSE [ok |-> FALSE, at |-> "repos.createForAuthenticatedUser"]

\* createRepository(name, description) on the reply of
\* repos.createForAuthenticatedUser and, after a 422 'name already exists',
\* on the reply of repos.get: the repository's data, or the error thrown.
createRepository(reply, lookup) ==
  IF reply = "created" THEN [ok |-> TRUE, at |-> ""]
  ELSE IF reply = "name already exists"
  THEN (IF lookup = "found" THEN [ok |-> TRUE, at |-> ""]
        ELSE [ok |-> FALSE, at |-> "repos.get"])
  ELSE [ok |-> FALSE, at |-> "repos.createForAuthenticatedUser"]

\* refs.find(r => r.ref === 'refs/heads/main') || refs[0]
mainRef(refs) ==
  IF \E i \in 1..Len(refs) : refs[i].ref = MainRef
  THEN refs[CHOOSE i \in 1..Len(refs) :
              refs[i].ref = MainRef /\ \A j \in 1..(i - 1) : refs[j].ref # MainRef]
  ELSE refs[1]

\* The refs after `ref` was moved to (or created at) the commit sha.
movedRef(refs, ref, sha) ==
  IF \E i \in 1..Len(refs) : refs[i].ref = ref
  THEN [i \in 1..Len(refs) |-> IF refs[i].ref = ref THEN RefAt(ref, sha) ELSE refs[i]]
  ELSE Append(refs, RefAt(ref, sha))

\* A call of createProject before it starts.
NoCall ==
  [pc |-> "init", name |-> "", files |-> <<>>, existing |-> FALSE, written |-> 0,
   read |-> <<>>, refs |-> <<>>, ref |-> MainRef, base |-> <<>>, parent |-> 0,
   commit |-> 0, sent |-> 0, pushed |-> {}, skipped |-> {}, error |-> NoGitHubError]

NoPublishing ==
  [repos |-> [n \in RepoNames |-> NoRepository],
   disk |-> [n \in RepoNames |-> {}],
   nextSha |-> 3,
   req |-> [r \in Callers |-> NoCall]]

\* ----------------------------------------------------- VercelIntegration
\* waitForDeployment: the time between two polls and the default of
\* maxWaitTime, in milliseconds.
pollInterval == 10000
maxWaitTime == 300000

\* How long a status request takes, in milliseconds.
Latencies == {0, 4000}

\* The two revisions of the integration: the REST one and the SDK one.
Variants == {"REST", "SDK"}

\* A deployment as the status endpoint reports it ("" is an absent field).
Deployment(readyState, state) == [readyState |-> readyState, state |-> state]

Deployments ==
  { Deployment("READY", ""), Deployment("ready", ""), Deployment("", "READY"),
    Deployment("", "ready"), Deployment("ERROR", ""), Deployment("", "error"),
    Deployment("CANCELED", ""), Deployment("", "canceled"), Deployment("BUILDING", ""),
    Deployment("", "QUEUED"), Deployment("QUEUED", "READY"), Deployment("", "") }

\* deployment.readyState || deployment.state
stateOf(d) == IF d.readyState # "" THEN d.readyState ELSE d.state

isReady(state) == state \in {"READY", "ready"}
isFailed(state) == state \in {"ERROR", "error", "CANCELED", "canceled"}

\* Math.round(ms / 1000)
round(ms) == (ms + 500) \div 1000

\* The catch block's test after a failed poll: elapsed < 30000, where the
\* REST revision takes elapsed in milliseconds and the SDK revision in
\* rounded seconds.
patient(variant, ms) == IF variant = "REST" THEN ms < 30000 ELSE round(ms) < 30000

\* The loop test with the end of the wait included.
stillWaitingInclusive(elapsed) == elapsed <= maxWaitTime

\* while (Date.now() - startTime < maxWaitTime)
stillWaiting(elapsed) == elapsed < maxWaitTime

\* status of the result of deployProject
resultStatus(finalDeployment) ==
  IF finalDeployment.readyState = "READY" THEN "ready" ELSE "error"

\* A call of deployProject before it starts.
NoDeployment ==
  [pc |-> "init", variant |-> "REST", elapsed |-> 0, polls |-> 0,
   last |-> Deployment("", ""), status |-> "", error |-> ""]

\* ------------------------------------------------------ POST /api/create
\* The most status updates the pipeline delivers in one run.
MaxUpdates == 2

\* The brief of the request body: a string or another value ("" and <<>>
\* are the falsy ones).
Body(isString, text) == [isString |-> isString, text |-> text]

Bodies ==
  { Body(TRUE, <<>>), Body(TRUE, <<SP, NL>>), Body(TRUE, <<"a", "p", "p">>),
    Body(FALSE, <<>>), Body(FALSE, <<"5">>) }

\* !brief || typeof brief !== 'string' || brief.trim().length === 0
briefRefused(body) == body.text = <<>> \/ ~body.isString \/ trim(body.text) = <<>>

\* An event of the stream: the status and the progress of its data.
Event(status, progress) == [status |-> status, progress |-> progress]

InitialEvent == Event("idle", 0)
CompletedEvent == Event("completed", 100)
ErrorEvent == Event("error", 0)

\* The status updates the pipeline hands to the callback.
Updates ==
  { Event("generating_prd", 10), Event("deploying", 80), Event("error", 0),
    Event("completed", 100) }

\* sendMessage on a stream that takes the chunk whatever its state.
sendMessageAlways(events, open, data) == Append(events, data)

\* sendMessage(data): controller.enqueue of the encoded event; on a closed
\* stream enqueue throws and nothing is added.
sendMessage(events, open, data) == IF open THEN Append(events, data) ELSE events

\* The route before a request.
NoStream ==
  [pc |-> "init", body |-> Body(FALSE, <<>>), events |-> <<>>, delivered |-> <<>>,
   late |-> 0, outcome |-> ""]


Init ==
  /\ pc = "idle"
  /\ plan \in Plans
  /\ retryCount = 0
  /\ requests = 0
  /\ response = NoTextResponse
  /\ extraction = NoResult
  /\ error = NoError
  /\ result = <<>>
  /\ outcomes = <<>>
  /\ prompts = <<>>
  /\ pm = NoPlanning
  /\ gh = NoPublishing
  /\ vercel = NoDeployment
  /\ sse = NoStream

\* generateCode(plan): validatePlan, then the request is sent.
GenerateCode ==
  /\ pc = "idle"
  /\ IF validatePlan(plan).kind = "none"
     THEN /\ pc' = "awaiting"
          /\ requests' = requests + 1
          /\ prompts' = Append(prompts, messageParams(plan))
          /\ error' = error
     ELSE /\ pc' = "failed"
          /\ requests' = requests
          /\ prompts' = prompts
          /\ error' = validatePlan(plan)
  /\ UNCHANGED <<plan, retryCount, response, extraction, result, outcomes, pm>>
  /\ UNCHANGED integrations

\* The catch block on an error of the try block.
Catch(caught, outcome) ==
  /\ error' = IF shouldRetry(caught, retryCount) THEN caught ELSE rethrown(caught)
  /\ pc' = IF shouldRetry(caught, retryCount) THEN "backoff" ELSE "failed"
  /\ outcomes' = Append(outcomes, outcome)
  /\ UNCHANGED <<plan, retryCount, requests, result, prompts, pm>>
  /\ UNCHANGED integrations

\* The backend answers: the rest of the try block runs, and the catch block
\* if it throws.
BackendReturns ==
  /\ pc = "awaiting"
  /\ \E r \in Responses, expected \in BOOLEAN :
     \E thrown \in {tryError(r, plan, expected)} :
       /\ thrown.expected = expected
       /\ response' = r
       /\ extraction' = parseResponse(r)
       /\ IF thrown.kind = "none"
          THEN /\ result' = autoFixCommonIssues(Member(extraction'.parsed, <<"files">>).es)
               /\ pc' = "succeeded"
               /\ outcomes' = Append(outcomes, "success")
               /\ UNCHANGED <<plan, retryCount, requests, error, prompts, pm>>
               /\ UNCHANGED integrations
          ELSE Catch(thrown,
                     IF thrown.kind = "ValidationError" THEN "invalid" ELSE "extraction")

\* The request fails in transport: the SDK's error is caught.
TransportFails ==
  /\ pc = "awaiting"
  /\ Catch([NoError EXCEPT !.kind = "APIConnectionError"], "transport")
  /\ UNCHANGED <<response, extraction>>

\* config.timeout elapses: the controller aborts the request.
RequestTimesOut ==
  /\ pc = "awaiting"
  /\ Catch([NoError EXCEPT !.kind = "APIUserAbortError"], "timeout")
  /\ UNCHANGED <<response, extraction>>

\* The three seconds of the retry are over: generateCode(plan, retryCount + 1),
\* a new call, which has caught nothing and received nothing yet.
Retry ==
  /\ pc = "backoff"
  /\ retryCount' = retryCount + 1
  /\ IF validatePlan(plan).kind = "none"
     THEN /\ pc' = "awaiting"
          /\ requests' = requests + 1
          /\ prompts' = Append(prompts, messageParams(plan))
          /\ error' = NoError
     ELSE /\ pc' = "failed"
          /\ requests' = requests
          /\ prompts' = prompts
          /\ error' = validatePlan(plan)
  /\ response' = NoTextResponse
  /\ extraction' = NoResult
  /\ UNCHANGED <<plan, result, outcomes, pm>>
  /\ UNCHANGED integrations

\* The variables of generateCode, which generatePRD does not touch.
devVars ==
  <<plan, retryCount, requests, response, extraction, error, result, outcomes, prompts>>

\* generatePRD(brief): the checks of the brief, then the request is sent.
GeneratePRD ==
  /\ pc = "idle"
  /\ \E brief \in Briefs :
       /\ pm' = [pm EXCEPT !.brief = brief, !.error = briefError(brief),
                           !.requests = IF briefError(brief).kind = "none" THEN 1 ELSE 0]
       /\ pc' = IF briefError(brief).kind = "none" THEN "planning" ELSE "rejected"
  /\ UNCHANGED <<devVars, integrations>>

\* The backend answers: parseResponse and validateResult run; the catch
\* block rethrows their AgentError or ValidationError.
PlanningReturns ==
  /\ pc = "planning"
  /\ \E r \in PlanResponses :
     \E thrown \in {pmTryError(r)} :
       /\ pm' = [pm EXCEPT !.response = r, !.extraction = pmParseResponse(r),
                           !.error = thrown]
       /\ pc' = IF thrown.kind = "none" THEN "planned" ELSE "rejected"
  /\ UNCHANGED <<devVars, integrations>>

\* The request fails or is aborted at the timeout: the catch block wraps
\* the foreign error in an AgentError.
PlanningRequestFails ==
  /\ pc = "planning"
  /\ pm' = [pm EXCEPT !.error = AgentError("Failed to generate PRD", TRUE, FALSE)]
  /\ pc' = "rejected"
  /\ UNCHANGED <<devVars, integrations>>

\* ------------------------------------------------- GitHubDirect, actions
\* The variables GitHubDirect does not touch.
notGitHub == <<devVars, pm, vercel, sse>>

Call(r) == gh.req[r]

\* The calls of createProject begin, for a project whose plan is valid; the
\* host is in one of its states.
Publish ==
  /\ pc = "idle"
  /\ validatePlan(plan).kind = "none"
  /\ pc' = "publishing"
  /\ \E host \in HostStates : gh' = [gh EXCEPT !.repos = host]
  /\ UNCHANGED notGitHub

\* createProject(projectName, files): the checks of its arguments, which
\* throw outside the try block.
CreateProject(r) ==
  /\ pc = "publishing"
  /\ Call(r).pc = "init"
  /\ r = 2 => Call(1).pc # "init"
  /\ \E name \in GitHubNames, files \in GitHubCollections :
       gh' = [gh EXCEPT !.req[r] =
                [@ EXCEPT !.name = name,
                          !.files = files,
                          !.pc = IF name = "" \/ files = <<>> THEN "failed"
                                 ELSE "createRepository",
                          !.error = IF name = "" THEN GitHubError("ValidationError", "projectName")
                                    ELSE IF files = <<>>
                                    THEN GitHubError("ValidationError", "files")
                                    ELSE NoGitHubError]]
  /\ UNCHANGED <<pc, notGitHub>>

\* createRepository: the host creates the repository, reports that the name
\* exists, or fails otherwise; an error is wrapped by createProject's catch.
CreateRepository(r) ==
  /\ pc = "publishing"
  /\ Call(r).pc = "createRepository"
  /\ \E reply \in {"created", "name already exists", "error"}, lookup \in {"found", "error"} :
       /\ reply = "created" => ~gh.repos[Call(r).name].exists
       /\ reply = "name already exists" => gh.repos[Call(r).name].exists
       /\ reply # "name already exists" => lookup = "found"
       /\ gh' = [gh EXCEPT
                   !.repos[Call(r).name] = IF reply = "created" THEN Repository(<<>>) ELSE @,
                   !.req[r] =
                     [@ EXCEPT !.existing = (reply = "name already exists"),
                               !.pc = IF createRepository(reply, lookup).ok THEN "rm"
                                      ELSE "failed",
                               !.error = IF createRepository(reply, lookup).ok THEN @
                                         ELSE GitHubError("AgentError",
                                                          createRepository(reply, lookup).at)]]
  /\ UNCHANGED <<pc, notGitHub>>

\* createLocalWorkspace: fs.rm of workspaceDir/projectName and fs.mkdir.
RemoveWorkspace(r) ==
  /\ pc = "publishing"
  /\ Call(r).pc = "rm"
  /\ gh' = [gh EXCEPT !.disk[Call(r).name] = {},
                      !.req[r] = [@ EXCEPT !.pc = "write"]]
  /\ UNCHANGED <<pc, notGitHub>>

\* createLocalWorkspace: fs.writeFile of the next file.
WriteFile(r) ==
  /\ pc = "publishing"
  /\ Call(r).pc = "write"
  /\ \E file \in {Call(r).files[Call(r).written + 1]} :
       gh' = [gh EXCEPT
                !.disk[Call(r).name] = {e \in @ : e[1] # file[1]} \cup {file},
                !.req[r] = [@ EXCEPT !.written = @ + 1,
                                     !.pc = IF Call(r).written + 1 = Len(Call(r).files)
                                            THEN "readDir" ELSE "write"]]
  /\ UNCHANGED <<pc, notGitHub>>

\* pushFilesToRepo: readDir of workspaceDir/repoName.
ReadWorkspace(r) ==
  /\ pc = "publishing"
  /\ Call(r).pc = "readDir"
  /\ gh' = [gh EXCEPT !.req[r] = [@ EXCEPT !.read = Listing(gh.disk[Call(r).name]),
                                           !.pc = "listRefs"]]
  /\ UNCHANGED <<pc, notGitHub>>

\* pushFilesToRepo: git.listMatchingRefs, whose error leaves refs empty, and
\* the choice of the ref.
ListRefs(r) ==
  /\ pc = "publishing"
  /\ Call(r).pc = "listRefs"
  /\ \E refs \in {<<>>, gh.repos[Call(r).name].refs} :
       gh' = [gh EXCEPT !.req[r] =
                [@ EXCEPT !.refs = refs,
                          !.ref = IF refs # <<>> THEN mainRef(refs).ref ELSE @,
                          !.pc = IF refs # <<>> THEN "getCommit"
                                 ELSE IF Call(r).read = <<>> THEN "returned"
                                 ELSE "contents"]]
  /\ UNCHANGED <<pc, notGitHub>>

\* git.getCommit of mainRef.object.sha: sha = commit.tree.sha.
GetCommit(r) ==
  /\ pc = "publishing"
  /\ Call(r).pc = "getCommit"
  /\ gh' = [gh EXCEPT !.req[r] = [@ EXCEPT !.base = TreeOf(mainRef(Call(r).refs).sha),
                                           !.pc = "createTree"]]
  /\ UNCHANGED <<pc, notGitHub>>

\* git.createBlob of every file read and git.createTree on base_tree.
CreateTree(r) ==
  /\ pc = "publishing"
  /\ Call(r).pc = "createTree"
  /\ gh' = [gh EXCEPT !.req[r] = [@ EXCEPT !.pc = "createCommit"]]
  /\ UNCHANGED <<pc, notGitHub>>

\* git.createCommit with parents: [refs[0].object.sha].
CreateCommit(r) ==
  /\ pc = "publishing"
  /\ Call(r).pc = "createCommit"
  /\ gh' = [gh EXCEPT !.nextSha = @ + 1,
                      !.req[r] = [@ EXCEPT !.parent = Call(r).refs[1].sha,
                                           !.commit = gh.nextSha,
                                           !.pc = "updateRef"]]
  /\ UNCHANGED <<pc, notGitHub>>

\* git.updateRef of ref to the new commit; createProject returns its result.
UpdateRef(r) ==
  /\ pc = "publishing"
  /\ Call(r).pc = "updateRef"
  /\ gh' = [gh EXCEPT
              !.repos[Call(r).name].refs = movedRef(@, Call(r).ref, Call(r).commit),
              !.req[r] = [@ EXCEPT !.pushed = EntriesOf(Call(r).read),
                                   !.pc = "returned"]]
  /\ UNCHANGED <<pc, notGitHub>>

\* The empty repository: repos.createOrUpdateFileContents of the next file
\* on branch main; its error is logged and the loop goes on.
PutFile(r) ==
  /\ pc = "publishing"
  /\ Call(r).pc = "contents"
  /\ \E file \in {Call(r).read[Call(r).sent + 1]}, ok \in BOOLEAN :
       gh' = [gh EXCEPT
                !.nextSha = IF ok THEN @ + 1 ELSE @,
                !.repos[Call(r).name].refs = IF ok THEN movedRef(@, MainRef, gh.nextSha) ELSE @,
                !.req[r] = [@ EXCEPT !.sent = @ + 1,
                                     !.pushed = IF ok THEN @ \cup {file} ELSE @,
                                     !.skipped = IF ok THEN @ ELSE @ \cup {file},
                                     !.pc = IF Call(r).sent + 1 = Len(Call(r).read)
                                            THEN "returned" ELSE "contents"]]
  /\ UNCHANGED <<pc, notGitHub>>

\* A call of the file system or of the host throws: the catch blocks wrap
\* the error in an AgentError and createProject throws it.
ApiFails(r) ==
  /\ pc = "publishing"
  /\ Call(r).pc \in {"write", "readDir", "getCommit", "createTree", "createCommit",
                     "updateRef"}
  /\ gh' = [gh EXCEPT !.req[r] = [@ EXCEPT !.pc = "failed",
                                           !.error = GitHubError("AgentError", Call(r).pc)]]
  /\ UNCHANGED <<pc, notGitHub>>

\* -------------------------------------------- VercelIntegration, actions
notVercel == <<devVars, pm, gh, sse>>

\* deployProject up to the call of waitForDeployment: the project is found
\* or created and the deployment triggered, or one of these steps throws.
Deploy ==
  /\ pc = "idle"
  /\ validatePlan(plan).kind = "none"
  /\ pc' = "deploying"
  /\ \E variant \in Variants, triggered \in BOOLEAN :
       vercel' = [vercel EXCEPT !.variant = variant,
                                !.pc = IF triggered THEN "waiting" ELSE "failed",
                                !.error = IF triggered THEN "" ELSE "trigger"]
  /\ UNCHANGED notVercel

\* One turn of the loop whose status request is answered: the deployment is
\* returned (and deployProject returns its result), the wait throws, or it
\* sleeps pollInterval.
PollDeployment ==
  /\ pc = "deploying"
  /\ vercel.pc = "waiting"
  /\ stillWaiting(vercel.elapsed)
  /\ \E latency \in Latencies, d \in Deployments :
       vercel' = [vercel EXCEPT
                    !.polls = @ + 1,
                    !.last = d,
                    !.elapsed = IF isReady(stateOf(d)) \/ isFailed(stateOf(d))
                                THEN @ + latency
                                ELSE @ + latency + pollInterval,
                    !.pc = IF isReady(stateOf(d)) THEN "returned"
                           ELSE IF isFailed(stateOf(d)) THEN "failed"
                           ELSE "waiting",
                    !.status = IF isReady(stateOf(d)) THEN resultStatus(d) ELSE @,
                    !.error = IF isFailed(stateOf(d)) THEN "state" ELSE @]
  /\ UNCHANGED <<pc, notVercel>>

\* One turn of the loop whose status request throws: the wait sleeps and
\* goes on while it is patient, and rethrows the error otherwise.
PollFails ==
  /\ pc = "deploying"
  /\ vercel.pc = "waiting"
  /\ stillWaiting(vercel.elapsed)
  /\ \E latency \in Latencies :
       vercel' = [vercel EXCEPT
                    !.polls = @ + 1,
                    !.elapsed = IF patient(vercel.variant, @ + latency)
                                THEN @ + latency + pollInterval
                                ELSE @ + latency,
                    !.pc = IF patient(vercel.variant, vercel.elapsed + latency)
                           THEN "waiting" ELSE "failed",
                    !.error = IF patient(vercel.variant, vercel.elapsed + latency)
                              THEN @ ELSE "poll"]
  /\ UNCHANGED <<pc, notVercel>>

\* The loop test fails: 'Deployment timeout - exceeded maximum wait time'.
WaitTimesOut ==
  /\ pc = "deploying"
  /\ vercel.pc = "waiting"
  /\ ~stillWaiting(vercel.elapsed)
  /\ vercel' = [vercel EXCEPT !.pc = "failed", !.error = "timeout"]
  /\ UNCHANGED <<pc, notVercel>>

\* --------------------------------------------- POST /api/create, actions
notRoute == <<devVars, pm, gh, vercel>>

\* POST: the brief is refused with status 400, or the stream starts and
\* the initial event is sent.
Post ==
  /\ pc = "idle"
  /\ validatePlan(plan).kind = "none"
  /\ pc' = "streaming"
  /\ \E body \in Bodies :
       sse' = [sse EXCEPT
                 !.body = body,
                 !.pc = IF briefRefused(body) THEN "refused" ELSE "open",
                 !.events = IF briefRefused(body) THEN @
                            ELSE sendMessage(@, TRUE, InitialEvent)]
  /\ UNCHANGED notRoute

\* statusCallback(update), called by the pipeline while createProject runs.
StatusCallback ==
  /\ pc = "streaming"
  /\ sse.pc = "open"
  /\ Len(sse.delivered) < MaxUpdates
  /\ \E update \in Updates :
       sse' = [sse EXCEPT !.delivered = Append(@, update),
                          !.events = sendMessage(@, TRUE, update)]
  /\ UNCHANGED <<pc, notRoute>>

\* createProject resolves: the final result is sent and the stream closed.
Resolves ==
  /\ pc = "streaming"
  /\ sse.pc = "open"
  /\ sse' = [sse EXCEPT !.events = sendMessage(@, TRUE, CompletedEvent),
                        !.outcome = "resolved",
                        !.pc = "closed"]
  /\ UNCHANGED <<pc, notRoute>>

\* createProject rejects: the error event is sent and the stream closed.
Rejects ==
  /\ pc = "streaming"
  /\ sse.pc = "open"
  /\ sse' = [sse EXCEPT !.events = sendMessage(@, TRUE, ErrorEvent),
                        !.outcome = "rejected",
                        !.pc = "closed"]
  /\ UNCHANGED <<pc, notRoute>>

\* statusCallback(update) called once more after the stream was closed.
LateCallback ==
  /\ pc = "streaming"
  /\ sse.pc = "closed"
  /\ sse.late = 0
  /\ \E update \in Updates :
       sse' = [sse EXCEPT !.late = 1,
                          !.events = sendMessage(@, FALSE, update)]
  /\ UNCHANGED <<pc, notRoute>>

Next ==
  \/ GenerateCode
  \/ BackendReturns
  \/ TransportFails
  \/ RequestTimesOut
  \/ Retry
  \/ GeneratePRD
  \/ PlanningReturns
  \/ PlanningRequestFails
  \/ Publish
  \/ \E r \in Callers : CreateProject(r)
  \/ \E r \in Callers : CreateRepository(r)
  \/ \E r \in Callers : RemoveWorkspace(r)
  \/ \E r \in Callers : WriteFile(r)
  \/ \E r \in Callers : ReadWorkspace(r)
  \/ \E r \in Callers : ListRefs(r)
  \/ \E r \in Callers : GetCommit(r)
  \/ \E r \in Callers : CreateTree(r)
  \/ \E r \in Callers : CreateCommit(r)
  \/ \E r \in Callers : UpdateRef(r)
  \/ \E r \in Callers : PutFile(r)
  \/ \E r \in Callers : ApiFails(r)
  \/ Deploy
  \/ PollDeployment
  \/ PollFails
  \/ WaitTimesOut
  \/ Post
  \/ StatusCallback
  \/ Resolves
  \/ Rejects
  \/ LateCallback

Spec == Init /\ [][Next]_vars

\* ------------------------------------------------------------ properties
\* The outcome of the last attempt (outcomes is not empty).
lastOutcome == outcomes[Len(outcomes)]

AllInvalid ==
  outcomes # <<>> /\ \A i \in DOMAIN outcomes : outcomes[i] = "invalid"

\* The files of a parsed result as <<path, content>> pairs, in order.
FileList(v) ==
  IF HasMember(v, <<"files">>) /\ Member(v, <<"files">>).t = "arr"
  THEN [i \in 1..Len(Member(v, <<"files">>).es) |->
          <<pathOf(Member(v, <<"files">>).es[i]), contentOf(Member(v, <<"files">>).es[i])>>]
  ELSE <<"no array">>

\* The first n entries of collection c as <<path, content>> pairs.
Entries(c, n) == [i \in 1..n |-> <<<<Paths[i]>>, c[i]>>]

\* The lexemes that close a payload after its last content: " } ] }.
TailLen == Len(<<DQ, "}", "]", "}">>)

\* The cuts that end inside the content of the last entry of c: at least one
\* character of the escaped content is kept and at least one is lost.
MidContentCuts(c) ==
  {TailLen + m : m \in 1..(Len(escapeContent(c[Len(c)])) - 1)}

\* C1 (amended): no run issues more than maxRetries + 1 requests, and a run
\* whose every attempt ends in a ValidationError fails after exactly
\* maxRetries + 1 requests: the first one and maxRetries retries.
C1_RetryCeiling ==
  /\ requests <= maxRetries + 1
  /\ (pc = "failed" /\ AllInvalid) => requests = maxRetries + 1

\* C1 as stated: such a run fails after exactly maxRetries requests and request
\* maxRetries + 1 is never issued.
C1_CeilingIsMaxRetries ==
  /\ requests <= maxRetries
  /\ (pc = "failed" /\ AllInvalid) => requests = maxRetries

C1_Witness == pc = "failed" /\ AllInvalid

\* The last attempt ended in an error of parseResponse and the catch block
\* has run.
ExtractionFailed ==
  outcomes # <<>> /\ lastOutcome = "extraction" /\ pc \in {"backoff", "failed"}

\* C2 (amended): an extraction failure is retried, as a validation failure
\* is, exactly when retries remain and it wraps the SyntaxError of the last
\* JSON.parse with 'Expected' in its message; every other extraction failure
\* (no text block, no object with files, another parse error) fails the run
\* at once.
C2_OnlyTruncationRetried ==
  ExtractionFailed =>
    (pc = "backoff" <=>
       /\ response.hasText
       /\ extraction.originalError
       /\ error.expected
       /\ retryCount < maxRetries)

\* C2 as stated: while retries remain, every extraction failure is retried.
C2_EveryExtractionFailureRetried ==
  (ExtractionFailed /\ retryCount < maxRetries) => pc = "backoff"

C2_Witness == ExtractionFailed /\ pc = "backoff" /\ retryCount < maxRetries

\* C3: an attempt that ends in a timeout or a transport error is the last
\* one: the run has failed and every request issued has had its outcome.
C3_TransportIsFatal ==
  \A i \in DOMAIN outcomes :
    outcomes[i] \in {"transport", "timeout"} =>
      /\ i = Len(outcomes)
      /\ pc = "failed"
      /\ requests = i

C3_Witness ==
  /\ Len(outcomes) > 1
  /\ lastOutcome \in {"transport", "timeout"}
  /\ retryCount < maxRetries

\* C4: a payload cut inside the content of its last entry N is extracted,
\* and the files extracted are exactly the entries 1..N-1.
C4_TruncationRepair ==
  \A c \in Collections \ {<<>>} :
    \A k \in MidContentCuts(c) :
      (response.hasText /\ response.text = Truncated(Payload(c), k)) =>
        /\ extraction.ok
        /\ FileList(extraction.parsed) = Entries(c, Len(c) - 1)

\* The entries of c that are closed in the payload cut by k lexemes: all of
\* them when only the closing bracket and brace are lost.
ClosedEntries(c, k) == IF k <= 2 THEN Len(c) ELSE Len(c) - 1

\* No content of c needs an escape: the normalization leaves them as they are.
Plain(c) == \A i \in 1..Len(c) : escapeContent(c[i]) = c[i]

\* C5: what the repair returns for a cut payload (of contents that need no
\* escape) holds every entry that is closed in the text, and only entries of
\* the payload.
C5_RepairKeepsClosedEntries ==
  \A c \in Collections \ {<<>>} :
    \A k \in 1..MaxCut :
      (response.hasText /\ response.text = Truncated(Payload(c), k) /\ Plain(c)
         /\ extraction.ok /\ extraction.strategy = 2) =>
        LET got == FileList(extraction.parsed)
        IN /\ \A i \in 1..ClosedEntries(c, k) :
                \E j \in DOMAIN got : got[j] = Entries(c, Len(c))[i]
           /\ \A j \in DOMAIN got :
                \E i \in 1..Len(c) : got[j] = Entries(c, Len(c))[i]

\* The results of the four strategies on the response, as parseResponse
\* calls them.
StrategyResults ==
  LET text == trim(response.text)
      normalizedText == normalizeJSON(text)
  IN <<strategy1(text), strategy2(normalizedText), strategy3(normalizedText),
       strategy4(text)>>

\* C6: when strategies 1 and 2 both extract, and differently, the result is
\* strategy 1's; a strategy's result is returned only if every earlier
\* strategy has failed.
C6_FirstMatchWins ==
  response.hasText =>
    LET s == StrategyResults
    IN /\ (s[1].ok /\ s[2].ok /\ s[1].parsed # s[2].parsed) =>
            (extraction.strategy = 1 /\ extraction.parsed = s[1].parsed)
       /\ extraction.ok =>
            /\ extraction = s[extraction.strategy]
            /\ \A m \in 1..(extraction.strategy - 1) : ~s[m].ok

C6_Witness ==
  /\ response.hasText
  /\ StrategyResults[1].ok /\ StrategyResults[2].ok
  /\ StrategyResults[1].parsed # StrategyResults[2].parsed
  /\ extraction.ok

\* C7: normalizeJSON applied twice to the response text gives what it gives
\* applied once.
C7_NormalizeIdempotent ==
  response.hasText =>
    normalizeJSON(normalizeJSON(response.text)) = normalizeJSON(response.text)

\* The text is valid JSON of the files schema: an object whose files is an
\* array.
FilesSchema(r) ==
  r.ok /\ HasMember(r.v, <<"files">>) /\ Member(r.v, <<"files">>).t = "arr"

\* C8: when the response text is valid JSON of the files schema, parsing its
\* normalization gives the same files with the same contents.
C8_EscapedContentKept ==
  (response.hasText /\ FilesSchema(JSONparse(response.text))) =>
    /\ FilesSchema(JSONparse(normalizeJSON(response.text)))
    /\ FileList(JSONparse(normalizeJSON(response.text)).v)
         = FileList(JSONparse(response.text).v)

\* C9: what parseResponse returns has a files member that is an array.
C9_FilesIsSequence ==
  extraction.ok =>
    /\ HasMember(extraction.parsed, <<"files">>)
    /\ Member(extraction.parsed, <<"files">>).t = "arr"

\* The response is prose, a fenced json block and closing prose.
IsFenced == response.hasText /\ startsWith(response.text, Prose \o <<FENCE, "json", NL>>)

\* C10 (amended): for prose, a fenced json block holding a complete payload
\* that the direct parse accepts when it is sent bare, and closing prose,
\* strategy 1 fails, the result is produced by strategy 2 (the bracket
\* matching, which runs before the fenced blocks are looked at) and it is
\* the result of the bare payload.
C10_FencedByBracketMatching ==
  IsFenced =>
    \A c \in Collections :
      (response.text = Fenced(Payload(c)) /\ strategy1(Payload(c)).ok) =>
        /\ ~StrategyResults[1].ok
        /\ extraction.ok
        /\ extraction.strategy = 2
        /\ extraction.parsed = parseText(Payload(c)).parsed

\* C10 as stated: strategy 1 fails and the result is produced by strategy 3
\* and is the result of the bare payload.
C10_FencedByStrategy3 ==
  IsFenced =>
    \A c \in Collections \ {<<>>} :
      response.text = Fenced(Payload(c)) =>
        /\ ~StrategyResults[1].ok
        /\ extraction.ok
        /\ extraction.strategy = 3
        /\ extraction.parsed = parseText(Payload(c)).parsed

C10_Witness ==
  /\ IsFenced
  /\ \E c \in Collections \ {<<>>} :
       response.text = Fenced(Payload(c)) /\ strategy1(Payload(c)).ok
  /\ extraction.ok

\* validateResult has run on the files array of the extraction: the try
\* block got that far and `error` holds what it threw, if anything.
Validated ==
  /\ response.hasText /\ extraction.ok
  /\ HasMember(extraction.parsed, <<"files">>)
  /\ Member(extraction.parsed, <<"files">>).t = "arr"
  /\ pc \in {"succeeded", "backoff", "failed"}

ValidatedFiles == Member(extraction.parsed, <<"files">>).es

\* The error validateResult threw (none when the run has succeeded).
Thrown == IF pc = "succeeded" THEN NoError ELSE error

\* Entry y of fs repeats the path of an earlier entry.
Repeats(fs, y) ==
  pathOf(fs[y]) # <<>> /\ \E x \in 1..(y - 1) : pathOf(fs[x]) = pathOf(fs[y])

HasDuplicate(fs) == \E y \in 1..Len(fs) : Repeats(fs, y)

\* The first entry of fs that repeats an earlier path.
FirstRepeat(fs) ==
  CHOOSE y \in 1..Len(fs) : Repeats(fs, y) /\ \A x \in 1..(y - 1) : ~Repeats(fs, x)

\* Entry x breaks none of the rules of the loop over the files.
CleanEntry(fs, x) ==
  /\ pathOf(fs[x]) # <<>>
  /\ contentOf(fs[x]) # <<>>
  /\ ~Repeats(fs, x)
  /\ ~hasPlaceholderCode(contentOf(fs[x]))

\* C11 (amended): a collection with two entries of the same path never
\* passes validateResult; the ValidationError is the duplicate error naming
\* the first repeated path when no entry before the repeating one breaks a
\* rule of the loop and the repeating entry has content.
C11_DuplicateRejected ==
  (Validated /\ HasDuplicate(ValidatedFiles)) =>
    /\ Thrown.kind = "ValidationError"
    /\ LET y == FirstRepeat(ValidatedFiles)
       IN ((\A x \in 1..(y - 1) : CleanEntry(ValidatedFiles, x))
             /\ contentOf(ValidatedFiles[y]) # <<>>) =>
            /\ Thrown.message = <<"Duplicate file path", pathOf(ValidatedFiles[y])>>
            /\ Thrown.field = "files[].path"

\* C11 as stated: whatever else the collection contains, the ValidationError
\* names a path that two entries share.
C11_DuplicateAlwaysNamed ==
  (Validated /\ HasDuplicate(ValidatedFiles)) =>
    /\ Thrown.kind = "ValidationError"
    /\ \E y \in 1..Len(ValidatedFiles) :
         Repeats(ValidatedFiles, y) /\ Thrown.message[2] = pathOf(ValidatedFiles[y])

C11_Witness ==
  /\ Validated /\ HasDuplicate(ValidatedFiles)
  /\ Thrown.message = <<"Duplicate file path", <<"README.md">>>>

\* The entries of fs whose path is not p.
Removed(fs, p) == SelectSeq(fs, LAMBDA f : pathOf(f) # p)

MissingFile(p) == <<"Missing required file", p>>

\* C12: a collection that passed validateResult fails it, with the error
\* that names the removed file, once the entry of any one required file is
\* removed; so do the responses that lack exactly one required file.
C12_RequiredFileCompleteness ==
  \A i \in 1..Len(requiredFiles) :
    /\ pc = "succeeded" =>
         /\ filesError(Removed(ValidatedFiles, requiredFiles[i]), plan).kind
              = "ValidationError"
         /\ filesError(Removed(ValidatedFiles, requiredFiles[i]), plan).message
              = MissingFile(requiredFiles[i])
    /\ (Validated /\ response.text = FilesPayload(Without(ValidProject, i))) =>
         /\ Thrown.kind = "ValidationError"
         /\ Thrown.message = MissingFile(requiredFiles[i])

C12_Witness ==
  /\ Validated
  /\ response.text = FilesPayload(Without(ValidProject, 5))
  /\ Thrown.message = MissingFile(requiredFiles[5])

\* The rule a ValidationError of validateResult reports, by its message
\* (0: no error).
RuleOf(err) ==
  IF err.kind = "none" THEN 0
  ELSE IF err.message[1] = "Files array cannot be empty" THEN 1
  ELSE IF err.message[1] \in {"Each file must have a path", "File must have content"} THEN 2
  ELSE IF err.message[1] = "Duplicate file path" THEN 3
  ELSE IF err.message[1] = "File contains placeholder code" THEN 4
  ELSE IF err.message[1] = "Missing required file" THEN 5
  ELSE 6

\* The rules as conditions on the collection.
NoPathOrContent(fs, x) == pathOf(fs[x]) = <<>> \/ contentOf(fs[x]) = <<>>
HasPlaceholder(fs, x) == hasPlaceholderCode(contentOf(fs[x]))
LacksRequired(fs) ==
  \E i \in 1..Len(requiredFiles) : \A x \in 1..Len(fs) : pathOf(fs[x]) # requiredFiles[i]
BadPackageJson(fs) == validatePackageJson(fs, plan).kind # "none"

\* The earliest rule that entry x breaks (0: none).
EntryRule(fs, x) ==
  IF NoPathOrContent(fs, x) THEN 2
  ELSE IF Repeats(fs, x) THEN 3
  ELSE IF HasPlaceholder(fs, x) THEN 4
  ELSE 0

\* The rules after the loop over the entries.
LaterRule(fs) ==
  IF LacksRequired(fs) THEN 5 ELSE IF BadPackageJson(fs) THEN 6 ELSE 0

\* C13 (amended): validateResult reports the first violation in this order:
\* the empty collection; then entry by entry in sequence order, for each
\* entry an empty path or content, a repeated path, a placeholder; then a
\* missing required file; then the package.json checks.  The error of an
\* entry names that entry's path.
C13_EntryByEntryOrder ==
  Validated =>
    LET fs == ValidatedFiles
        bad(x) == EntryRule(fs, x) # 0
    IN IF Len(fs) = 0 THEN RuleOf(Thrown) = 1
       ELSE IF \E x \in 1..Len(fs) : bad(x)
       THEN \E x \in 1..Len(fs) :
              /\ bad(x) /\ \A y \in 1..(x - 1) : ~bad(y)
              /\ RuleOf(Thrown) = EntryRule(fs, x)
              /\ Thrown.message[2] = pathOf(fs[x])
       ELSE RuleOf(Thrown) = LaterRule(fs)

\* C13 as stated: the rule reported is the earliest rule of the list that
\* any entry of the collection breaks.
C13_RuleByRuleOrder ==
  Validated =>
    LET fs == ValidatedFiles
    IN RuleOf(Thrown) =
         IF Len(fs) = 0 THEN 1
         ELSE IF \E x \in 1..Len(fs) : NoPathOrContent(fs, x) THEN 2
         ELSE IF \E x \in 1..Len(fs) : Repeats(fs, x) THEN 3
         ELSE IF \E x \in 1..Len(fs) : HasPlaceholder(fs, x) THEN 4
         ELSE LaterRule(fs)

\* A placeholder in an earlier entry and an empty content in a later one.
C13_Witness ==
  /\ Validated
  /\ \E x, y \in 1..Len(ValidatedFiles) :
       /\ x < y
       /\ EntryRule(ValidatedFiles, x) = 4
       /\ EntryRule(ValidatedFiles, y) = 2
       /\ \A z \in 1..(x - 1) : EntryRule(ValidatedFiles, z) = 0
  /\ RuleOf(Thrown) = 4

\* The content of the package.json entry of fs (fs has one).
PackageJsonContent(fs) ==
  contentOf(fs[CHOOSE x \in 1..Len(fs) :
                 /\ pathOf(fs[x]) = <<"package.json">>
                 /\ \A y \in 1..(x - 1) : pathOf(fs[y]) # <<"package.json">>])

\* The collection passes every rule before the package.json checks.
ReachesPackageJson(fs) ==
  /\ Len(fs) > 0
  /\ \A x \in 1..Len(fs) : EntryRule(fs, x) = 0
  /\ ~LacksRequired(fs)

\* package.json parses to an object whose name is a string other than the
\* plan's project name.
NameMismatch(r) ==
  /\ r.ok /\ r.v.t = "obj"
  /\ HasMember(r.v, <<"name">>)
  /\ Member(r.v, <<"name">>).t = "str"
  /\ Member(r.v, <<"name">>).s # plan.project_name

\* C14: when package.json parses and its name is not the plan's
\* project_name, validation throws the ValidationError of the field
\* package.json.name with the actual name as its value, not the error
\* 'package.json has invalid JSON'.
C14_NameMismatchReported ==
  (Validated /\ ReachesPackageJson(ValidatedFiles)
     /\ NameMismatch(JSONparse(PackageJsonContent(ValidatedFiles)))) =>
    /\ Thrown.kind = "ValidationError"
    /\ Thrown.field = "package.json.name"
    /\ Thrown.message = <<"package.json name must match project name", plan.project_name>>
    /\ Thrown.value
         = <<Member(JSONparse(PackageJsonContent(ValidatedFiles)).v, <<"name">>).s>>

C14_Witness ==
  /\ Validated /\ ReachesPackageJson(ValidatedFiles)
  /\ NameMismatch(JSONparse(PackageJsonContent(ValidatedFiles)))
  /\ plan.project_name = <<"my-app">>
  /\ Thrown.value = << <<"other-app">> >>

\* Entry x of the collection is next.config.js.
IsNextConfig(fs, x) == pathOf(fs[x]) = <<"next.config.js">>

\* C15: the content of next.config.js after autoFixCommonIssues is what the
\* export fix makes of the validated content, and the fix applied to it
\* again leaves it as it is.
C15_ExportFixIdempotent ==
  pc = "succeeded" =>
    \A x \in 1..Len(result) :
      IsNextConfig(result, x) =>
        /\ contentOf(result[x]) = fixNextConfig(contentOf(ValidatedFiles[x]))
        /\ fixNextConfig(contentOf(result[x])) = contentOf(result[x])

\* The fix has appended the export statement.
C15_Witness ==
  /\ pc = "succeeded"
  /\ \E x \in 1..Len(result) :
       /\ IsNextConfig(result, x)
       /\ contentOf(result[x]) # contentOf(ValidatedFiles[x])
       /\ endsWith(contentOf(result[x]), ExportStatement)

\* Every member of object `before` is a member of object `after`, with the
\* same value where `same` says so.
KeepsMembers(before, after, same(_)) ==
  \A i \in 1..Len(before.es) :
    /\ HasMember(after, before.es[i].s)
    /\ same(before.es[i]) => Member(after, before.es[i].s) = before.es[i].es[1]

\* package.json after the fix has every member it had before and, in
\* dependencies, every library it declared (with the version declared,
\* when that is not the empty string).
KeepsPackageJson(before, after) ==
  /\ after.ok /\ after.v.t = "obj"
  /\ KeepsMembers(before.v, after.v, LAMBDA m : m.s # <<"dependencies">>)
  /\ KeepsMembers(Member(before.v, <<"dependencies">>),
                  Member(after.v, <<"dependencies">>),
                  LAMBDA m : Truthy(m.es[1]))

\* C16: autoFixCommonIssues on a collection that passed validateResult
\* returns the same entries in the same order; only next.config.js and
\* package.json may change, the first then starting with its old content
\* less the white space around it, the second keeping every member and
\* every declared dependency; and a package.json that does not parse is
\* left as it is.
C16_AutoFixKeepsContent ==
  /\ pc = "succeeded" =>
       /\ Len(result) = Len(ValidatedFiles)
       /\ \A x \in 1..Len(result) :
            /\ pathOf(result[x]) = pathOf(ValidatedFiles[x])
            /\ contentOf(result[x]) # <<>>
            /\ IF IsNextConfig(result, x)
               THEN \/ result[x] = ValidatedFiles[x]
                    \/ startsWith(contentOf(result[x]), trim(contentOf(ValidatedFiles[x])))
               ELSE IF pathOf(result[x]) = <<"package.json">>
               THEN KeepsPackageJson(JSONparse(contentOf(ValidatedFiles[x])),
                                     JSONparse(contentOf(result[x])))
               ELSE result[x] = ValidatedFiles[x]
  /\ (Validated /\ \A x \in 1..Len(ValidatedFiles) : ~NoPathOrContent(ValidatedFiles, x)) =>
       \A x \in 1..Len(ValidatedFiles) :
         (pathOf(ValidatedFiles[x]) = <<"package.json">>
            /\ ~JSONparse(contentOf(ValidatedFiles[x])).ok) =>
           autoFixCommonIssues(ValidatedFiles)[x] = ValidatedFiles[x]

\* The dependency fix has rewritten a package.json that declared clsx.
C16_Witness ==
  /\ pc = "succeeded"
  /\ \E x \in 1..Len(result) :
       /\ pathOf(result[x]) = <<"package.json">>
       /\ result[x] # ValidatedFiles[x]
       /\ HasMember(Member(JSONparse(contentOf(ValidatedFiles[x])).v, <<"dependencies">>),
                    <<"clsx">>)

\* A .ts or .tsx entry of fs imports or requires lib.
Referenced(fs, lib) ==
  \E x \in 1..Len(fs) :
    endsWithTs(pathOf(fs[x])) /\ importsLibrary(contentOf(fs[x]), lib)

\* The dependencies section of the package.json entry of fs.
DependenciesOf(fs) ==
  Member(JSONparse(PackageJsonContent(fs)).v, <<"dependencies">>)

\* C17: after autoFixCommonIssues every known library that a .ts or .tsx
\* entry references is in the dependencies of package.json: with its pinned
\* version when it was absent, with its declared version when it was
\* declared.
C17_DependenciesConsistent ==
  pc = "succeeded" =>
    \A i \in 1..Len(knownLibraries) :
      Referenced(ValidatedFiles, knownLibraries[i]) =>
        LET lib == knownLibraries[i]
            before == DependenciesOf(ValidatedFiles)
            after == DependenciesOf(result)
        IN /\ HasMember(after, <<lib>>)
           /\ Member(after, <<lib>>) =
                IF HasMember(before, <<lib>>) THEN Member(before, <<lib>>)
                ELSE JStr(<<libraryVersions[lib]>>)

\* generatePRD has received a text answer and has ended.
PlanningDone == pc \in {"planned", "rejected"} /\ pm.response.hasText

\* A payload of the Dev agent with one file.
OneFilePayload == Payload(<< <<"h", "i">> >>)

\* C18: an answer shape from which the Dev agent's parseResponse recovers
\* its payload (bare, prose before it, a fenced block around it, a fenced
\* block after another code block) is one from which the PM agent's
\* parseResponse recovers the planning result.
C18_SameRecovery ==
  PlanningDone =>
    \A shape \in ShapeNames :
      (/\ pm.response.text = Shaped(shape, compact(ValidPlanResult))
       /\ parseText(Shaped(shape, OneFilePayload)).ok) =>
        /\ pm.extraction.ok
        /\ pm.extraction.parsed = ValidPlanResult

\* The file specs of the plan that generatePRD returned.
PlannedFiles ==
  Member(Member(pm.extraction.parsed, <<"plan">>), <<"files">>).es

\* C19: in the plan that generatePRD returns every file spec has a path
\* that is a non-empty string, and no two file specs have the same path.
C19_ManifestInvariant ==
  pc = "planned" =>
    /\ \A x \in 1..Len(PlannedFiles) : NonEmptyString(PlannedFiles[x], "path")
    /\ \A x, y \in 1..Len(PlannedFiles) :
         x # y => pathOf(PlannedFiles[x]) # pathOf(PlannedFiles[y])

\* C20: every request of a run carries the system and user prompts of the
\* first one, which are those made from the plan alone, whatever the
\* earlier responses and errors were.
C20_PromptsFromPlanOnly ==
  /\ Len(prompts) = requests
  /\ \A k \in DOMAIN prompts :
       /\ prompts[k] = prompts[1]
       /\ prompts[k].system = SYSTEM_PROMPT
       /\ prompts[k].user = <<"Development Plan:", NL>> \o formatPlanDescription(plan)
                              \o <<NL, NL, "<instructions>">>

\* A third request after a response that could not be parsed and one that
\* failed validation.
C20_Witness ==
  /\ Len(prompts) = 3
  /\ \E i, j \in DOMAIN outcomes : outcomes[i] = "extraction" /\ outcomes[j] = "invalid"

\* ------------------------------------------------------------ C24
\* generatePRD has been called: it is past its input checks.
PRDCalled == pc \in {"planning", "planned", "rejected"}

\* The brief is empty, made of white space only, or has less than 10
\* characters.
BelowThreshold(brief) ==
  \/ \A i \in 1..Len(brief) : IsSpace(brief[i])
  \/ length(brief) < 10

\* C24: generatePRD called with an empty, a white-space-only or a shorter
\* than 10 characters brief throws a ValidationError and sends no request
\* to the completion backend.
C24_BriefThreshold ==
  (PRDCalled /\ BelowThreshold(pm.brief)) =>
    /\ pc = "rejected"
    /\ pm.error.kind = "ValidationError"
    /\ pm.requests = 0

\* A brief of nine characters has been rejected.
C24_Witness ==
  /\ pc = "rejected"
  /\ length(pm.brief) = 9
  /\ pm.error.kind = "ValidationError"
  /\ pm.requests = 0

\* ------------------------------------------------------------ C25
\* A response with a text block has been received and parsed.
ResponseParsed == pc \in {"backoff", "succeeded", "failed"} /\ response.hasText

\* C25: normalizeJSON is applied before every parse attempt, the last
\* resort included: a response that parseResponse fails on is one whose
\* last-resort text does not parse after normalizeJSON either.
C25_NormalizedBeforeEveryParse ==
  (ResponseParsed /\ ~extraction.ok) => ~strategy4(normalizeJSON(trim(response.text))).ok

\* ------------------------------------------------------------ C27
\* The invariants validateResult enforces, stated of a collection.
Invariants(fs) ==
  /\ Len(fs) > 0
  /\ \A x \in 1..Len(fs) : pathOf(fs[x]) # <<>> /\ contentOf(fs[x]) # <<>>
  /\ \A x, y \in 1..Len(fs) : pathOf(fs[x]) = pathOf(fs[y]) => x = y
  /\ \A x \in 1..Len(fs) : ~hasPlaceholderCode(contentOf(fs[x]))
  /\ \A i \in 1..Len(requiredFiles) : \E x \in 1..Len(fs) : pathOf(fs[x]) = requiredFiles[i]
  /\ validatePackageJson(fs, plan).kind = "none"

\* C27: a result returned by generateCode, after the auto-fix, satisfies
\* every validated invariant and holds the files of the last attempt only.
C27_FixedResultValid ==
  pc = "succeeded" =>
    /\ Invariants(result)
    /\ extraction = parseResponse(response)
    /\ Len(result) = Len(ValidatedFiles)
    /\ \A x \in 1..Len(result) : pathOf(result[x]) = pathOf(ValidatedFiles[x])

\* ------------------------------------------------------------ C21
Returned(r) == pc = "publishing" /\ Call(r).pc = "returned"

\* C21: two calls of createProject share no mutable state: whatever the
\* interleaving, the files a call sent to the host (uploaded, or skipped
\* after a failed upload) are exactly the entries of its own collection.
C21_OwnFilesPushed ==
  \A r \in Callers :
    Returned(r) => Call(r).pushed \cup Call(r).skipped = EntriesOf(Call(r).files)

\* ------------------------------------------------------------ C22
\* The call has ended in an error.
Raised(r) == pc = "publishing" /\ Call(r).pc = "failed"

\* The calls made after the reply of the repository creation.
LaterCalls ==
  {"repos.get", "write", "readDir", "getCommit", "createTree", "createCommit", "updateRef"}

\* C22: a call whose repository creation reported that the name already
\* exists goes on with the existing repository: it does not raise because
\* of that reply; it raises only when a later call of the host or of the
\* file system fails, and otherwise returns its result.
C22_AlreadyExistsTolerated ==
  \A r \in Callers :
    (pc = "publishing" /\ Call(r).existing) =>
      /\ Call(r).pc \notin {"init", "createRepository"}
      /\ Raised(r) => Call(r).error.kind = "AgentError" /\ Call(r).error.at \in LaterCalls

\* A second publish of my-app, started after the first one returned, was
\* told that the name exists and has returned a result too.
C22_Witness ==
  /\ Returned(1) /\ Returned(2)
  /\ Call(1).name = Call(2).name
  /\ ~Call(1).existing
  /\ Call(2).existing
  /\ Call(2).pushed = EntriesOf(Call(2).files)

\* ------------------------------------------------------------ C28
\* C28: a call of createProject that returned a result has uploaded every
\* file of the collection it was given.
C28_ReturnedMeansUploaded ==
  \A r \in Callers :
    Returned(r) => EntriesOf(Call(r).files) \subseteq Call(r).pushed

\* ------------------------------------------------------------ C30
\* The head of `ref` in the list of refs.
HeadOf(refs, ref) == refs[CHOOSE i \in 1..Len(refs) : refs[i].ref = ref].sha

\* C30: the commit pushed to a repository with branches has as parent the
\* head of the ref that updateRef moves, and as base tree the tree of that
\* head.
C30_CommitOnUpdatedRef ==
  \A r \in Callers :
    (pc = "publishing" /\ Call(r).pc \in {"updateRef", "returned"} /\ Call(r).refs # <<>>) =>
      /\ Call(r).parent = HeadOf(Call(r).refs, Call(r).ref)
      /\ Call(r).base = TreeOf(HeadOf(Call(r).refs, Call(r).ref))

\* ------------------------------------------------------------ C26
\* The wait has ended: the deployment was returned or an error thrown.
WaitEnded == pc = "deploying" /\ vercel.pc \in {"returned", "failed"}

\* The most polls a wait can make.
MostPolls == maxWaitTime \div pollInterval

\* How each wait that has ended came to its end.
EndsAsSpecified ==
  WaitEnded =>
    \/ vercel.pc = "returned" /\ isReady(stateOf(vercel.last))
    \/ vercel.error = "state" /\ isFailed(stateOf(vercel.last))
    \/ vercel.error = "timeout" /\ vercel.elapsed >= maxWaitTime
    \/ vercel.error = "poll" /\ ~patient(vercel.variant, vercel.elapsed)
    \/ vercel.error = "trigger" /\ vercel.polls = 0

\* C26: the wait ends within a bounded number of polls: it makes at most
\* maxWaitTime / pollInterval polls, each poll that does not end it moves
\* the clock by pollInterval at least, it ends by returning a ready
\* deployment, by throwing on an error or canceled state, on a failed poll
\* or on the timeout, and it polls no more once it has ended.
C26_WaitIsBounded ==
  /\ [](vercel.polls <= MostPolls /\ EndsAsSpecified)
  /\ [][/\ vercel'.polls > vercel.polls =>
             /\ vercel.pc = "waiting" /\ vercel.elapsed < maxWaitTime
             /\ vercel'.pc = "waiting" => vercel'.elapsed >= vercel.elapsed + pollInterval
        /\ WaitEnded => vercel' = vercel]_vars

\* A wait whose polls all found the deployment building and which ended
\* with the timeout after the most polls.
C26_Witness ==
  /\ WaitEnded
  /\ vercel.error = "timeout"
  /\ vercel.polls = MostPolls
  /\ vercel.last = Deployment("BUILDING", "")

\* ------------------------------------------------------------ C29
\* C29: a result returned by deployProject has the status ready.
C29_ReturnedStatusReady ==
  (pc = "deploying" /\ vercel.pc = "returned") => vercel.status = "ready"

\* ------------------------------------------------------------ C23
\* The event the route sends when createProject has ended.
ClosingEvent == IF sse.outcome = "resolved" THEN CompletedEvent ELSE ErrorEvent

\* The events are the initial one, the updates in the order of their
\* delivery and, once the stream is closed, the closing event.
StreamAsDelivered ==
  /\ sse.pc = "open" => sse.events = <<InitialEvent>> \o sse.delivered
  /\ sse.pc = "closed" => sse.events = <<InitialEvent>> \o sse.delivered \o <<ClosingEvent>>

\* The events with the status completed or error.
TerminalEvents == {i \in 1..Len(sse.events) : sse.events[i].status \in {"completed", "error"}}

====
